---- MODULE Spec2Model ----
(***************************************************************************)
(* A model of the Plaid importers for beangulp.                            *)
(*                                                                         *)
(*   src/importer/plaid.py  Importer: the security table (_get_securities),*)
(*                          the (type, subtype) dispatch table and its     *)
(*                          handlers, _extract_investments, the balance    *)
(*                          and price projection over the holdings.        *)
(*   src/plaid.py           the older Importer (its handlers resolve a     *)
(*                          missing ticker through the ledger commodities) *)
(*                          and PlaidSimilarityComparator.                 *)
(*   src/plaid_bank.py      the bank Importer: two-posting entries, the    *)
(*                          category account, the closing balance.         *)
(*                                                                         *)
(* Python None in a string-valued field is the string "None" (what the     *)
(* f-strings of the source print for it); Decimal values are integers.     *)
(* An optional object (a cost, a price annotation) is a sequence of length *)
(* 0 or 1.                                                                 *)
(***************************************************************************)
EXTENDS Integers, Sequences, FiniteSets, TLC

VARIABLES
    pc,                 \* position of the operation being modelled
    holdings_secs,      \* json_file['investment_holdings'][*]['securities'], in file order
    transactions_secs,  \* json_file['investment_transactions'][*]['securities'], in file order
    securities,         \* self.securities: security_id -> security record
    security,           \* <<record>> a handler read from self.securities, or <<>>
    money_market_funds, \* self.money_market_funds
    exclude_descriptions, \* self.exclude_descriptions: <<>> for None, else <<list>>
    commodities,        \* name -> currency map built from the existing ledger (src/plaid.py)
    transaction,        \* the raw investment transaction handed to a handler
    result,             \* what the handler did: an entry or a raised error
    json_transactions,  \* investment transactions of the file not yet enumerated
    json_accounts,      \* <<account record>> of the file with its balances, or <<>>
    json_holdings,      \* json_file['investment_holdings'][*]['holdings'], in file order
    existing_entries,   \* the entries of the existing ledger handed to deduplicate
    plaid_client,       \* how the Plaid service answers the calls of one download
    output_file,        \* <<keys of the output written to the file>>, <<>> if not written
    offset,             \* PlaidApi.get_transactions: offset of the next request
    total_transactions, \* <<total of the first response>>, <<>> for None
    responses,          \* the response pages received, in request order
    requests,           \* options.offset of the requests sent to the service, in order
    entries,            \* the entries list of the running extraction
    returned,           \* <<entries>> once the extraction returned, else <<>>
    error,              \* <<error>> once the extraction raised, else <<>>
    cmp_max_date_delta, \* PlaidSimilarityComparator.max_date_delta (<<>> for None)
    cache,              \* PlaidSimilarityComparator.cache: entry -> amounts map
    cmp_entry1,         \* first argument of the last __call__
    cmp_entry2,         \* second argument of the last __call__
    cmp_result          \* <<bool>> returned by the last __call__, else <<>>

vars == <<pc, holdings_secs, transactions_secs, securities, security,
          money_market_funds, exclude_descriptions, commodities, transaction, result,
          json_transactions, json_accounts, json_holdings, entries, returned, error,
          existing_entries, plaid_client, output_file, offset, total_transactions, responses,
          requests, cmp_max_date_delta, cache, cmp_entry1, cmp_entry2, cmp_result>>

secVars == <<holdings_secs, transactions_secs, securities, security>>
handlerVars == <<money_market_funds, exclude_descriptions, commodities, transaction, result>>
apiVars == <<existing_entries, plaid_client, output_file, offset, total_transactions, responses,
            requests>>
extractVars == <<json_transactions, json_accounts, json_holdings, entries, returned, error, apiVars>>
cmpVars == <<cmp_max_date_delta, cache, cmp_entry1, cmp_entry2, cmp_result>>

None == "None"

(***************************************************************************)
(* Bounds of the model.                                                    *)
(***************************************************************************)
MaxSecs == 2        \* securities listed per section of the file
MaxTxns == 2        \* investment transactions per file

RECURSIVE SeqsUpTo(_, _)
SeqsUpTo(S, n) ==
    IF n = 0 THEN {<<>>}
    ELSE LET shorter == SeqsUpTo(S, n - 1)
         IN shorter \cup {Append(s, x) : s \in {t \in shorter : Len(t) = n - 1}, x \in S}

\* dict update d[k] = v
Put(d, k, v) == [x \in DOMAIN d \cup {k} |-> IF x = k THEN v ELSE d[x]]

EmptyDict == [x \in {} |-> None]

(***************************************************************************)
(* Security table: Importer._get_securities                                *)
(***************************************************************************)
SecurityIds == {"S1", "S2"}
Tickers == {None, "ABC"}

\* the security records a section of the file may list
SecurityRecords ==
    [security_id : SecurityIds, ticker_symbol : Tickers,
     name : {"Fund A"}, is_cash_equivalent : {FALSE},
     close_price : {1}, iso_currency_code : {"USD"}]

\* mutant: the first record of an identifier is kept
RECURSIVE StoreAllFirstWins(_, _)
StoreAllFirstWins(table, secs) ==
    IF secs = <<>> THEN table
    ELSE StoreAllFirstWins(
            IF Head(secs).security_id \in DOMAIN table THEN table
            ELSE Put(table, Head(secs).security_id, Head(secs)),
            Tail(secs))

RECURSIVE StoreAll(_, _)
\* for ... in enumerate(section, 'securities'): securities[id] = security
StoreAll(table, secs) ==
    IF secs = <<>> THEN table
    ELSE StoreAll(Put(table, Head(secs).security_id, Head(secs)), Tail(secs))

\* several lists merged in the order they are processed
MergeLists(first, second) == StoreAll(StoreAll(EmptyDict, first), second)

\* Importer._get_securities: holdings section first, transactions section second
GetSecurities(hsecs, tsecs) == MergeLists(hsecs, tsecs)

IdleSec ==
    /\ holdings_secs = <<>>
    /\ transactions_secs = <<>>
    /\ securities = EmptyDict
    /\ security = <<>>

IdleHandler ==
    /\ money_market_funds = {}
    /\ exclude_descriptions = <<>>
    /\ commodities = EmptyDict
    /\ transaction = <<>>
    /\ result = <<>>

IdleApi ==
    /\ existing_entries = <<>>
    /\ plaid_client = <<>>
    /\ output_file = <<>>
    /\ offset = 0
    /\ total_transactions = <<>>
    /\ responses = <<>>
    /\ requests = <<>>

IdleExtract ==
    /\ IdleApi
    /\ json_transactions = <<>>
    /\ json_accounts = <<>>
    /\ json_holdings = <<>>
    /\ entries = <<>>
    /\ returned = <<>>
    /\ error = <<>>

IdleCmp ==
    /\ cmp_max_date_delta = <<>>
    /\ cache = EmptyDict
    /\ cmp_entry1 = <<>>
    /\ cmp_entry2 = <<>>
    /\ cmp_result = <<>>

InitSecurities ==
    /\ pc = "extract"
    /\ holdings_secs \in SeqsUpTo(SecurityRecords, MaxSecs)
    /\ transactions_secs \in SeqsUpTo(SecurityRecords, MaxSecs)
    /\ securities = EmptyDict
    /\ security = <<>>
    /\ IdleHandler /\ IdleExtract /\ IdleCmp

\* extract: self.securities = self._get_securities(json_file)
ExtractGetSecurities ==
    /\ pc = "extract"
    /\ securities' = GetSecurities(holdings_secs, transactions_secs)
    /\ pc' = "handlers"
    /\ UNCHANGED <<holdings_secs, transactions_secs, security>>
    /\ UNCHANGED <<handlerVars, extractVars, cmpVars>>

\* a handler reads security = self.securities[transaction['security_id']]
HandlerLookup ==
    /\ pc = "handlers"
    /\ \E id \in DOMAIN securities :
          security' = <<securities[id]>>
    /\ pc' = "looked"
    /\ UNCHANGED <<holdings_secs, transactions_secs, securities>>
    /\ UNCHANGED <<handlerVars, extractVars, cmpVars>>

NextSecurities == ExtractGetSecurities \/ HandlerLookup

SpecSecurities == InitSecurities /\ [][NextSecurities]_vars

(***************************************************************************)
(* Handlers of src/importer/plaid.py                                       *)
(***************************************************************************)
account_name == "Assets:Inv"
cash_account == account_name \o ":Cash"
dividend_income_account == "Income:Dividends"
fees_account == "Expenses:Fees"
gains_loss_account == "Income:PnL"
rounding_account == "Equity:Rounding-Error"

\* data.Posting(account, units, cost, price, flag, meta); units is
\* amount.Amount(number, currency); cost, price and meta are <<>> for None
Posting(account, number, currency, cost, price, meta) ==
    [account |-> account, number |-> number, currency |-> currency,
     cost |-> cost, price |-> price, meta |-> meta]

\* position.Cost(number, currency, date, None)
Cost(number, currency, date) == [number |-> number, currency |-> currency, date |-> date]

\* amount.Amount(number, currency), as the price annotation of a posting
Amount(number, currency) == [number |-> number, currency |-> currency]

\* mutant: no posting carries the identifier
PostMetaNone(t) == <<>>

\* post_meta = {'plaid_id': transaction['investment_transaction_id']}
PostMeta(t) == <<[plaid_id |-> t.investment_transaction_id]>>

\* data.Transaction(meta, date, flag, payee, narration, tags, links, postings)
Transaction(date, payee, narration, postings) ==
    [date |-> date, payee |-> payee, narration |-> narration, postings |-> postings]

\* a handler returned txn
Returns(txn) == [entry |-> <<txn>>, raised |-> <<>>]

\* a handler raised: the exception class and the values its message prints
Raises(exc, args) == [entry |-> <<>>, raised |-> <<[exc |-> exc, args |-> args]>>]

\* Importer.unknown_transaction
unknown_transaction(t, secs, mmf) ==
    Raises("NotImplementedError",
           <<t.investment_transaction_id, t.type, t.subtype>>)

\* Importer.invs_cash_withdrawal
invs_cash_withdrawal(t, secs, mmf) ==
    Returns(Transaction(t.date, None, t.name,
        << Posting(cash_account, -t.amount, t.iso_currency_code, <<>>, <<>>, PostMeta(t)) >>))

\* mutant: the cash posting of a deposit carries the raw amount
invs_cash_deposit_same_sign(t, secs, mmf) ==
    Returns(Transaction(t.date, None, t.name,
        << Posting(cash_account, t.amount, t.iso_currency_code, <<>>, <<>>, PostMeta(t)) >>))

\* Importer.invs_cash_deposit
invs_cash_deposit(t, secs, mmf) ==
    Returns(Transaction(t.date, None, t.name,
        << Posting(cash_account, -t.amount, t.iso_currency_code, <<>>, <<>>, PostMeta(t)) >>))

\* mutant: the cash posting of a dividend is not negated
invs_cash_dividend_same_sign(t, secs, mmf) ==
    IF t.security_id \notin DOMAIN secs THEN Raises("KeyError", <<t.security_id>>)
    ELSE
    Returns(Transaction(t.date, secs[t.security_id].name, t.name,
        << Posting(dividend_income_account, t.amount, t.iso_currency_code, <<>>, <<>>, PostMeta(t)),
           Posting(cash_account, t.amount, t.iso_currency_code, <<>>, <<>>, <<>>) >>))

\* Importer.invs_cash_dividend
invs_cash_dividend(t, secs, mmf) ==
    IF t.security_id \notin DOMAIN secs THEN Raises("KeyError", <<t.security_id>>)
    ELSE
    Returns(Transaction(t.date, secs[t.security_id].name, t.name,
        << Posting(dividend_income_account, t.amount, t.iso_currency_code, <<>>, <<>>, PostMeta(t)),
           Posting(cash_account, -t.amount, t.iso_currency_code, <<>>, <<>>, <<>>) >>))

\* mutant: the discrepancy of a sell is booked like the one of a buy
DiscrepancyPostingsAllRounding(_type, discrepancy, currency) ==
    IF discrepancy # 0
    THEN << Posting(rounding_account, discrepancy, currency, <<>>, <<>>, <<>>) >>
    ELSE <<>>

\* Importer._invs_buy, lines 305-313: where the discrepancy goes
DiscrepancyPostings(_type, discrepancy, currency) ==
    IF discrepancy # 0
    THEN IF _type = "sell"
         THEN << Posting(gains_loss_account, discrepancy, currency, <<>>, <<>>, <<>>) >>
         ELSE << Posting(rounding_account, discrepancy, currency, <<>>, <<>>, <<>>) >>
    ELSE <<>>

\* mutant: the fee is taken out of the amount before the discrepancy
DiscrepancyNetOfFee(amt, fees, quantity, price) == (amt - fees) - quantity * price

\* mutant: the discrepancy with the opposite sign
DiscrepancyFromCost(amt, fees, quantity, price) == quantity * price - amt

\* Importer._invs_buy, line 303
Discrepancy(amt, fees, quantity, price) == amt - quantity * price

\* Importer._invs_buy, lines 268-271
SecurityTicker(sec) ==
    IF sec.ticker_symbol # None THEN sec.ticker_symbol ELSE "unknown"

\* mutant: the fee is posted even when it is zero
FeePostingsAlways(fees, currency) ==
    << [account |-> "Expenses:Fees", number |-> fees, currency |-> currency,
        cost |-> <<>>, price |-> <<>>, meta |-> <<>>] >>

\* Importer._invs_buy, lines 287-290
FeePostings(fees, currency) ==
    IF fees # 0
    THEN << Posting(fees_account, fees, currency, <<>>, <<>>, <<>>) >>
    ELSE <<>>

\* Importer._invs_buy
_invs_buy(account, t, secs, mmf) ==
    IF t.security_id \notin DOMAIN secs THEN Raises("KeyError", <<t.security_id>>)
    ELSE
    IF t.quantity = <<>> THEN Raises("ValueError", <<None>>)   \* D(str(None))
    ELSE
    LET sec == secs[t.security_id]
        security_ticker == SecurityTicker(sec)
        currency == t.iso_currency_code
        quantity == t.quantity[1]
        first == << Posting(account, -(t.amount + t.fees), currency, <<>>, <<>>, <<>>) >>
                 \o FeePostings(t.fees, currency)
        postings ==
            IF security_ticker \in mmf
            THEN first \o
                 << Posting(account_name \o ":" \o security_ticker,
                            t.amount + t.fees, security_ticker,
                            <<>>, <<Amount(1, "USD")>>, PostMeta(t)) >>
            ELSE first \o
                 << Posting(account_name \o ":" \o security_ticker,
                            quantity, security_ticker,
                            <<Cost(t.price, currency, t.date)>>,
                            <<Amount(t.amount, currency)>>, PostMeta(t)) >>
                 \o DiscrepancyPostings(t.type,
                        Discrepancy(t.amount, t.fees, quantity, t.price), currency)
    IN Returns(Transaction(t.date, sec.name, t.name, postings))

\* Importer.invs_buy_reinvestment
invs_buy_reinvestment(t, secs, mmf) == _invs_buy(dividend_income_account, t, secs, mmf)

\* Importer.invs_buy_sell
invs_buy_sell(t, secs, mmf) == _invs_buy(cash_account, t, secs, mmf)

\* Importer.invs_fees_account
invs_fees_account(t, secs, mmf) ==
    IF t.security_id \notin DOMAIN secs THEN Raises("KeyError", <<t.security_id>>)
    ELSE
    LET sec == secs[t.security_id] IN
    IF sec.ticker_symbol = None /\ sec.is_cash_equivalent
    THEN Returns(Transaction(t.date, None, t.name,
            << Posting(fees_account, t.amount, t.iso_currency_code, <<>>, <<>>, <<>>),
               Posting(cash_account, -t.amount, t.iso_currency_code, <<>>, <<>>, PostMeta(t)) >>))
    ELSE _invs_buy(fees_account, t, secs, mmf)

\* the subtypes the table maps to unknown_transaction, per type
UnknownSubtypes ==
    [_type \in {"buy", "sell", "cancel", "cash", "fee", "transfer"} |->
        CASE _type = "buy" ->
                {"assignment", "contribution", "buy to cover", "dividend reinvestment",
                 "interest reinvestment", "short-term capital gain reinvestment"}
          [] _type = "sell" -> {"distribution", "exercise", "sell short"}
          [] _type = "cancel" -> {None}
          [] _type = "cash" ->
                {"account fee", "stock distribution", "legal fee", "long-term capital gain",
                 "management fee", "margin expense", "non-qualified dividend",
                 "non-resident tax", "pending credit", "pending debit",
                 "qualified dividend", "short-term capital gain", "tax", "tax withheld",
                 "transfer fee", "trust fee", "unqualified gain"}
          [] _type = "fee" ->
                {"adjustment", "dividend", "interest", "interest receivable",
                 "long-term capital gain", "legal fee", "management fee", "margin expense",
                 "non-qualified dividend", "non-resident tax", "qualified dividend",
                 "return of principal", "short-term capital gain", "stock distribution",
                 "tax", "tax withheld", "transfer fee", "trust fee", "unqualified gain"}
          [] _type = "transfer" ->
                {"assignment", "adjustment", "exercise", "expire", "merger", "request",
                 "send", "spin off", "split", "trade", "transfer"}]

\* the subtypes the table maps to a real handler, per type
ImplementedCb ==
    [_type \in {"buy", "sell", "cancel", "cash", "fee", "transfer"} |->
        CASE _type = "buy" ->
                ("buy" :> "invs_buy_sell"
                 @@ "long-term capital gain reinvestment" :> "invs_buy_reinvestment")
          [] _type = "sell" -> ("sell" :> "invs_buy_sell")
          [] _type = "cash" ->
                ("contribution" :> "invs_cash_deposit" @@ "deposit" :> "invs_cash_deposit"
                 @@ "dividend" :> "invs_cash_dividend" @@ "interest" :> "invs_cash_dividend"
                 @@ "withdrawal" :> "invs_cash_withdrawal")
          [] _type = "fee" ->
                ("account fee" :> "invs_fees_account"
                 @@ "miscellaneous fee" :> "invs_fees_account")
          [] OTHER -> EmptyDict]

\* self.inv_trans_cb
inv_trans_cb ==
    [_type \in DOMAIN UnknownSubtypes |->
        ImplementedCb[_type]
        @@ [subtype \in UnknownSubtypes[_type] |-> "unknown_transaction"]]

\* txn = cb(transaction, filepath, index)
Call(cb, t, secs, mmf) ==
    CASE cb = "unknown_transaction" -> unknown_transaction(t, secs, mmf)
      [] cb = "invs_cash_withdrawal" -> invs_cash_withdrawal(t, secs, mmf)
      [] cb = "invs_cash_deposit" -> invs_cash_deposit(t, secs, mmf)
      [] cb = "invs_cash_dividend" -> invs_cash_dividend(t, secs, mmf)
      [] cb = "invs_buy_reinvestment" -> invs_buy_reinvestment(t, secs, mmf)
      [] cb = "invs_buy_sell" -> invs_buy_sell(t, secs, mmf)
      [] cb = "invs_fees_account" -> invs_fees_account(t, secs, mmf)

\* Importer._extract_bank, lines 380-394: the entry of one bank transaction
bank_txn(t) ==
    Transaction(t.date, t.merchant_name, t.name,
        << Posting(account_name, -t.amount, t.iso_currency_code, <<>>, <<>>,
                   <<[plaid_id |-> t.transaction_id]>>) >>)

\* Importer._extract_investments, lines 412-420: look the handler up and call it
Dispatch(t, secs, mmf) ==
    IF t.type \in DOMAIN inv_trans_cb /\ t.subtype \in DOMAIN inv_trans_cb[t.type]
    THEN Call(inv_trans_cb[t.type][t.subtype], t, secs, mmf)
    ELSE Raises("NotImplementedError", <<t.type, t.subtype>>)

(***************************************************************************)
(* Handlers of src/plaid.py                                                *)
(***************************************************************************)
cash_account_name == "Cash"

\* ":".join((self.account_name, part)); a None part makes join raise TypeError
JoinFails(part) == part = None

\* Importer.__cash_transfer
__cash_transfer(t, secs, comm) ==
    Returns(Transaction(t.date, t.iso_currency_code, t.name,
        << Posting(account_name \o ":" \o cash_account_name, -t.amount, t.iso_currency_code,
                   <<>>, <<>>, PostMeta(t)) >>))

\* Importer.__fee_misc_fee
__fee_misc_fee(t, secs, comm) ==
    IF t.security_id \notin DOMAIN secs THEN Raises("KeyError", <<t.security_id>>)
    ELSE
    LET s == secs[t.security_id] IN
    IF s.is_cash_equivalent # TRUE
    THEN Raises("AssertionError", <<"Currently, only sweeps are supported for misc fees">>)
    ELSE IF JoinFails(s.ticker_symbol) THEN Raises("TypeError", <<None>>)
    ELSE Returns(Transaction(t.date, s.name, t.name,
            << Posting(account_name \o ":" \o cash_account_name, -t.amount,
                       t.iso_currency_code, <<>>, <<>>, <<>>),
               Posting(account_name \o ":" \o s.ticker_symbol, t.amount, s.ticker_symbol,
                       <<>>, <<Amount(s.close_price, s.iso_currency_code)>>, PostMeta(t)) >>))

\* Importer.__fee_dividend
__fee_dividend(t, secs, comm) ==
    IF t.security_id \notin DOMAIN secs THEN Raises("KeyError", <<t.security_id>>)
    ELSE
    Returns(Transaction(t.date, secs[t.security_id].name, t.name,
        << Posting("Income:Dividend", t.amount, t.iso_currency_code, <<>>, <<>>, <<>>),
           Posting(account_name \o ":" \o cash_account_name, -t.amount, t.iso_currency_code,
                   <<>>, <<>>, PostMeta(t)) >>))

\* Importer.__buy_buy_sell_sell, lines 286-289: unknown ticker, use the name
\* to look the commodity up in the ledger
ResolveTicker(s, comm) ==
    IF s.ticker_symbol = None /\ s.name \in DOMAIN comm
    THEN comm[s.name]
    ELSE s.ticker_symbol

\* Importer.__buy_buy_sell_sell
__buy_buy_sell_sell(t, secs, comm) ==
    IF t.security_id \notin DOMAIN secs THEN Raises("KeyError", <<t.security_id>>)
    ELSE
    LET s == secs[t.security_id]
        s_ticker == ResolveTicker(s, comm)
    IN
    IF t.quantity = <<>> THEN Raises("ValueError", <<None>>)   \* D(str(None))
    ELSE IF JoinFails(s_ticker) THEN Raises("TypeError", <<None>>)
    ELSE Returns(Transaction(t.date, s.name, t.name,
            << Posting(account_name \o ":" \o cash_account_name, -t.amount,
                       t.iso_currency_code, <<>>, <<>>, <<>>),
               Posting(account_name \o ":" \o s_ticker, t.quantity[1], s_ticker,
                       <<Cost(t.price, t.iso_currency_code, t.date)>>,
                       <<Amount(t.price, t.iso_currency_code)>>, PostMeta(t)) >>))

\* Importer.__cash_deposit_withdrawal
__cash_deposit_withdrawal(t, secs, comm) ==
    IF t.quantity # <<>> THEN __buy_buy_sell_sell(t, secs, comm)
    ELSE IF t.security_id \notin DOMAIN secs THEN Raises("KeyError", <<t.security_id>>)
    ELSE Returns(Transaction(t.date, secs[t.security_id].name, t.name,
            << Posting(account_name \o ":" \o cash_account_name, -t.amount,
                       t.iso_currency_code, <<>>, <<>>, PostMeta(t)) >>))

\* self.plaid_func_table
plaid_func_table ==
    (<<"cash", "deposit">> :> "__cash_deposit_withdrawal"
     @@ <<"cash", "withdrawal">> :> "__cash_deposit_withdrawal"
     @@ <<"fee", "miscellaneous fee">> :> "__fee_misc_fee"
     @@ <<"fee", "interest">> :> "__fee_misc_fee"
     @@ <<"fee", "dividend">> :> "__fee_dividend"
     @@ <<"cash", "dividend">> :> "__fee_dividend"
     @@ <<"buy", "buy">> :> "__buy_buy_sell_sell"
     @@ <<"sell", "sell">> :> "__buy_buy_sell_sell"
     @@ <<"cash", "contribution">> :> "__buy_buy_sell_sell"
     @@ <<"transfer", "transfer">> :> "__cash_transfer")

\* ent = trans_func(meta, t, securities, commodities)
PlaidCall(trans_func, t, secs, comm) ==
    CASE trans_func = "__cash_deposit_withdrawal" -> __cash_deposit_withdrawal(t, secs, comm)
      [] trans_func = "__fee_misc_fee" -> __fee_misc_fee(t, secs, comm)
      [] trans_func = "__fee_dividend" -> __fee_dividend(t, secs, comm)
      [] trans_func = "__buy_buy_sell_sell" -> __buy_buy_sell_sell(t, secs, comm)
      [] trans_func = "__cash_transfer" -> __cash_transfer(t, secs, comm)

\* Importer.extract_investment_transactions, lines 191-197
PlaidDispatch(t, secs, comm) ==
    IF <<t.type, t.subtype>> \in DOMAIN plaid_func_table
    THEN PlaidCall(plaid_func_table[<<t.type, t.subtype>>], t, secs, comm)
    ELSE Raises("AssertionError", <<t.type, t.subtype>>)

(***************************************************************************)
(* One raw investment transaction through the dispatch table               *)
(***************************************************************************)
MaxNum == 2         \* bound of the small amounts, quantities and prices

\* (type, subtype) pairs: the ones with a handler in either table, some the
\* table maps to unknown_transaction, and some it does not list
TypePairs ==
    {<<"buy", "buy">>, <<"sell", "sell">>,
     <<"buy", "long-term capital gain reinvestment">>,
     <<"cash", "deposit">>, <<"cash", "withdrawal">>, <<"cash", "dividend">>,
     <<"cash", "contribution">>,
     <<"fee", "account fee">>, <<"fee", "miscellaneous fee">>, <<"fee", "interest">>,
     <<"transfer", "transfer">>, <<"buy", "contribution">>, <<"cancel", None>>,
     <<"cash", "rebalance">>, <<"other", "other">>}

Amounts == (-MaxNum..MaxNum) \cup {1000, 1010}
Fees == {0, 10}
Quantities == {<<>>} \cup {<<q>> : q \in (-1..MaxNum) \cup {10}}
Prices == (0..MaxNum) \cup {100}

\* the raw transactions with identifier id on security sid
RawTransactions(ids, sids, pairs) ==
    {[investment_transaction_id |-> id, type |-> p[1], subtype |-> p[2],
      security_id |-> sid, amount |-> a, fees |-> f, quantity |-> q, price |-> pr,
      iso_currency_code |-> "USD", date |-> 10, name |-> "narration"] :
        id \in ids, sid \in sids, p \in pairs,
        a \in Amounts, f \in Fees, q \in Quantities, pr \in Prices}

\* the securities a transaction may refer to
HandlerSecurities ==
    [security_id : {"S1"}, ticker_symbol : {None, "XYZ", "MMF"},
     name : {"Fund A"}, is_cash_equivalent : BOOLEAN,
     close_price : {1}, iso_currency_code : {"USD"}]

\* money_market_funds: the default ([''] from None) or a configured list
MoneyMarketConfigs == {{""}, {"MMF"}}

\* the commodities of the existing ledger, by name
CommodityTables == {EmptyDict, [n \in {"Fund A"} |-> "FNDA"]}

InitHandlers ==
    /\ pc = "transaction"
    /\ money_market_funds \in MoneyMarketConfigs
    /\ exclude_descriptions = <<>>
    /\ commodities \in CommodityTables     \* in the ledger, never read by this importer
    /\ transaction = <<>>
    /\ result = <<>>
    /\ IdleSec /\ IdleExtract /\ IdleCmp

\* src/importer/plaid.py: cb = self.inv_trans_cb[_type][subtype]; txn = cb(...)
HandleTransaction ==
    /\ pc = "transaction"
    /\ \E t \in RawTransactions({"T1"}, {"S1"}, TypePairs), sec \in HandlerSecurities :
          /\ transaction' = <<t>>
          /\ securities' = [id \in {sec.security_id} |-> sec]
          /\ result' = <<Dispatch(t, securities', money_market_funds)>>
    /\ pc' = "handled"
    /\ UNCHANGED <<holdings_secs, transactions_secs, security, money_market_funds,
                   exclude_descriptions, commodities>>
    /\ UNCHANGED <<extractVars, cmpVars>>

\* the raw bank transactions
BankTransactions ==
    {[transaction_id |-> "B1", amount |-> a, iso_currency_code |-> "USD", date |-> 10,
      name |-> "narration", merchant_name |-> "merchant"] : a \in Amounts}

\* src/importer/plaid.py, _extract_bank: one bank transaction made an entry
HandleBankTransaction ==
    /\ pc = "transaction"
    /\ \E t \in BankTransactions :
          /\ transaction' = <<t>>
          /\ result' = <<Returns(bank_txn(t))>>
    /\ pc' = "bank_handled"
    /\ UNCHANGED <<secVars, money_market_funds, exclude_descriptions, commodities>>
    /\ UNCHANGED <<extractVars, cmpVars>>

NextHandlers == HandleTransaction \/ HandleBankTransaction

SpecHandlers == InitHandlers /\ [][NextHandlers]_vars

InitPlaid ==
    /\ pc = "transaction"
    /\ money_market_funds = {}
    /\ exclude_descriptions = <<>>
    /\ commodities \in CommodityTables
    /\ transaction = <<>>
    /\ result = <<>>
    /\ IdleSec /\ IdleExtract /\ IdleCmp

\* src/plaid.py: trans_func = self.plaid_func_table.get(...); ent = trans_func(...)
PlaidHandleTransaction ==
    /\ pc = "transaction"
    /\ \E t \in RawTransactions({"T1"}, {"S1"}, TypePairs), sec \in HandlerSecurities :
          /\ transaction' = <<t>>
          /\ securities' = [id \in {sec.security_id} |-> sec]
          /\ result' = <<PlaidDispatch(t, securities', commodities)>>
    /\ pc' = "handled"
    /\ UNCHANGED <<holdings_secs, transactions_secs, security, money_market_funds,
                   exclude_descriptions, commodities>>
    /\ UNCHANGED <<extractVars, cmpVars>>

NextPlaid == PlaidHandleTransaction

SpecPlaid == InitPlaid /\ [][NextPlaid]_vars

(***************************************************************************)
(* Importer._extract_investments of src/importer/plaid.py                  *)
(***************************************************************************)
account_id == "acc-1"

\* txt in description, for strings given as sequences of characters
IsSubstring(txt, description) ==
    \E i \in 0..(Len(description) - Len(txt)) :
        SubSeq(description, i + 1, i + Len(txt)) = txt

\* Importer.enumerate, lines 366-369: the items it does not yield
EnumerateSkips(item) ==
    \/ "account_id" \in DOMAIN item /\ account_id # item.account_id
    \/ "pending" \in DOMAIN item /\ item.pending

\* lines 422-427 with self.exclude_descriptions a list
Excluded(narration, excl) ==
    \E k \in 1..Len(excl) : IsSubstring(excl[k], narration)

RECURSIVE ExtractLoop(_, _, _, _, _)
\* Importer._extract_investments, lines 411-427: the loop over the
\* enumerated investment transactions, entries so far in acc
ExtractLoop(txns, acc, secs, mmf, excl) ==
    IF txns = <<>> THEN [entries |-> acc, raised |-> <<>>]
    ELSE LET t == Head(txns)
             r == Dispatch(t, secs, mmf)
         IN IF EnumerateSkips(t)
            THEN ExtractLoop(Tail(txns), acc, secs, mmf, excl)
            ELSE IF r.raised # <<>>
            THEN [entries |-> acc, raised |-> r.raised]
            ELSE IF excl = <<>>      \* any(... for txt in None)
            THEN [entries |-> acc,
                  raised |-> <<[exc |-> "TypeError", args |-> <<None>>]>>]
            ELSE IF Excluded(r.entry[1].narration, excl[1])
            THEN ExtractLoop(Tail(txns), acc, secs, mmf, excl)
            ELSE ExtractLoop(Tail(txns), Append(acc, r.entry[1]), secs, mmf, excl)

\* Importer._extract_investments
_extract_investments(txns, secs, mmf, excl) == ExtractLoop(txns, <<>>, secs, mmf, excl)

\* the investment transactions a file may list
InvestTransactions ==
    {[investment_transaction_id |-> id, account_id |-> acc, type |-> p[1], subtype |-> p[2],
      security_id |-> "S1", amount |-> 2, fees |-> 0, quantity |-> <<1>>, price |-> 2,
      iso_currency_code |-> "USD", date |-> 10, name |-> n] :
        id \in {"T1", "T2"}, acc \in {account_id, "acc-2"},
        p \in {<<"buy", "buy">>, <<"cash", "deposit">>, <<"transfer", "transfer">>,
               <<"cash", "rebalance">>, <<"other", "other">>},
        n \in {<<"b", "u", "y">>, <<"s", "w", "e", "e", "p">>}}

\* exclude_descriptions: None (the default), or a list
ExcludeConfigs == {<<>>, << <<>> >>, << << <<"w", "e">> >> >>}

InitInvest ==
    /\ pc = "extract_investments"
    /\ securities = [id \in {"S1"} |->
                        [security_id |-> "S1", ticker_symbol |-> "XYZ", name |-> "Fund A",
                         is_cash_equivalent |-> FALSE, close_price |-> 1,
                         iso_currency_code |-> "USD"]]
    /\ holdings_secs = <<>> /\ transactions_secs = <<>> /\ security = <<>>
    /\ money_market_funds = {""}
    /\ exclude_descriptions \in ExcludeConfigs
    /\ commodities = EmptyDict /\ transaction = <<>> /\ result = <<>>
    /\ json_transactions \in SeqsUpTo(InvestTransactions, MaxTxns)
    /\ json_accounts = <<>> /\ json_holdings = <<>> /\ IdleApi
    /\ entries = <<>> /\ returned = <<>> /\ error = <<>>
    /\ IdleCmp

\* entries += self._extract_investments(filepath, existing), or it raises
ExtractInvestments ==
    /\ pc = "extract_investments"
    /\ LET out == _extract_investments(json_transactions, securities,
                                       money_market_funds, exclude_descriptions)
       IN /\ error' = out.raised
          /\ entries' = IF out.raised = <<>> THEN entries \o out.entries ELSE entries
          /\ returned' = IF out.raised = <<>> THEN <<entries'>> ELSE <<>>
          /\ pc' = IF out.raised = <<>> THEN "returned" ELSE "raised"
    /\ UNCHANGED <<secVars, handlerVars, json_transactions, json_accounts, json_holdings, apiVars, cmpVars>>

NextInvest == ExtractInvestments

SpecInvest == InitInvest /\ [][NextInvest]_vars

(***************************************************************************)
(* The bank path: src/plaid_bank.py extract, src/plaid.py                  *)
(* extract_transactions, src/importer/plaid.py _extract_bank.  Strings the *)
(* code edits or searches are sequences of characters.  Dates are day      *)
(* numbers; timedelta(days=1) is 1.                                        *)
(***************************************************************************)
\* datetime.date.min, below every date of a file
date_min == 0

RECURSIVE Join(_, _)
\* sep.join(parts)
Join(sep, parts) ==
    IF parts = <<>> THEN <<>>
    ELSE IF Len(parts) = 1 THEN parts[1]
    ELSE parts[1] \o sep \o Join(sep, Tail(parts))

RECURSIVE Replace(_, _, _)
\* str.replace(old, new), old one character
Replace(str, old, new) ==
    IF str = <<>> THEN <<>>
    ELSE (IF Head(str) = old THEN new ELSE <<Head(str)>>) \o Replace(Tail(str), old, new)

\* mutant: the components are joined with a hyphen
pst_account_hyphen(category) ==
    Replace(Replace(Replace(Join(<<"-">>, category), "'", <<>>), ",", <<>>), " ", <<"-">>)

\* plaid_bank.py lines 76-77:
\* ':'.join(t['category']).replace("'", "").replace(',', '').replace(' ', '-')
pst_account(category) ==
    Replace(Replace(Replace(Join(<<":">>, category), "'", <<>>), ",", <<>>), " ", <<"-">>)

\* "Expenses:" + pst_account
ExpensesAccount(category) ==
    <<"E", "x", "p", "e", "n", "s", "e", "s", ":">> \o pst_account(category)

\* data.Balance(meta, date, account, amount, None, None)
Balance(date, account, number, currency) ==
    [date |-> date, account |-> account, number |-> number, currency |-> currency]

\* the category path components of the bank transactions
Food == <<"F", "o", "o", "d">>
Restaurants == <<"R", "e", "s", "t", "a", "u", "r", "a", "n", "t", "s">>
FoodAndDrink == <<"F", "o", "o", "d", " ", "a", "n", "d", " ", "D", "r", "i", "n", "k">>
KidsToys == <<"K", "i", "d", "'", "s", ",", " ", "T", "o", "y", "s">>

Categories == {<<Food, Restaurants>>, <<FoodAndDrink, Restaurants>>, <<KidsToys>>}

\* the bank transactions a file may list
BankBatchTransactions ==
    {[transaction_id |-> "B1", account_id |-> acc, pending |-> pend, date |-> d,
      amount |-> a, iso_currency_code |-> "USD", name |-> <<"b", "u", "y">>,
      merchant_name |-> "merchant", category |-> c] :
        acc \in {account_id, "acc-2"}, pend \in BOOLEAN, d \in {1, 2},
        a \in {-5, 5}, c \in Categories}

\* accounts[0] of the file with the item's last_successful_update; a balance
\* the institution does not report is <<>>
BankAccounts ==
    {[account_id |-> account_id, type |-> ty, current |-> cur, available |-> av,
      iso_currency_code |-> "USD", last_successful_update |-> 3] :
        ty \in {"depository", "credit", "loan"},
        cur \in {<<>>, <<100>>}, av \in {<<>>, <<50>>}}

\* D(str(balance)): D("None") raises ValueError
DRaises(balance) == balance = <<>>

RECURSIVE PlaidBankLoop(_, _, _, _)
\* plaid_bank.py lines 62-87: the loop over j['transactions'], entries so far
\* in acc, last_date so far
PlaidBankLoop(txns, currency, acc, last_date) ==
    IF txns = <<>> THEN [entries |-> acc, last_date |-> last_date]
    ELSE LET t == Head(txns)
             leg1 == Posting(account_name, -t.amount, currency, <<>>, <<>>,
                             <<[transaction_id |-> t.transaction_id]>>)
             leg2 == Posting(ExpensesAccount(t.category), t.amount, currency, <<>>, <<>>, <<>>)
             txn == Transaction(t.date, t.merchant_name, t.name, <<leg1, leg2>>)
         IN IF t.pending
            THEN PlaidBankLoop(Tail(txns), currency, acc, last_date)
            ELSE PlaidBankLoop(Tail(txns), currency, Append(acc, txn),
                               IF t.date > last_date THEN t.date ELSE last_date)

\* plaid_bank.py Importer.extract
plaid_bank_extract(txns, account) ==
    LET loop == PlaidBankLoop(txns, account.iso_currency_code, <<>>, date_min)
    IN IF Len(loop.entries) = 0 THEN [entries |-> loop.entries, raised |-> <<>>]
       ELSE IF DRaises(account.current)
       THEN [entries |-> <<>>, raised |-> <<[exc |-> "ValueError", args |-> <<None>>]>>]
       ELSE [entries |-> Append(loop.entries,
                            Balance(loop.last_date + 1, account_name,
                                    account.current[1], account.iso_currency_code)),
             raised |-> <<>>]

RECURSIVE ExtractTransactionsLoop(_, _, _)
\* src/plaid.py lines 134-151: the loop over the transactions
ExtractTransactionsLoop(txns, currency, acc) ==
    IF txns = <<>> THEN acc
    ELSE LET t == Head(txns)
             leg1 == Posting(account_name, -t.amount, currency, <<>>, <<>>,
                             <<[plaid_id |-> t.transaction_id]>>)
             txn == Transaction(t.date, t.merchant_name, t.name, <<leg1>>)
         IN IF t.pending
            THEN ExtractTransactionsLoop(Tail(txns), currency, acc)
            ELSE ExtractTransactionsLoop(Tail(txns), currency, Append(acc, txn))

\* src/plaid.py lines 155-156
BalanceAmount(acct_type, balance) ==
    IF acct_type = "credit" \/ acct_type = "loan" THEN -balance ELSE balance

\* src/plaid.py Importer.extract_transactions
extract_transactions(txns, account) ==
    LET balance == IF account.current = <<>> THEN account.available ELSE account.current
        ents == ExtractTransactionsLoop(txns, account.iso_currency_code, <<>>)
    IN IF Len(ents) = 0 THEN [entries |-> ents, raised |-> <<>>]
       ELSE IF DRaises(balance)
       THEN [entries |-> <<>>, raised |-> <<[exc |-> "ValueError", args |-> <<None>>]>>]
       ELSE [entries |-> Append(ents,
                            Balance(account.last_successful_update + 1, account_name,
                                    BalanceAmount(account.type, balance[1]),
                                    account.iso_currency_code)),
             raised |-> <<>>]

RECURSIVE ExtractBankLoop(_, _, _)
\* src/importer/plaid.py lines 379-400: the loop over the enumerated bank
\* transactions
ExtractBankLoop(txns, acc, excl) ==
    IF txns = <<>> THEN [entries |-> acc, raised |-> <<>>]
    ELSE LET t == Head(txns)
         IN IF EnumerateSkips(t)
            THEN ExtractBankLoop(Tail(txns), acc, excl)
            ELSE IF excl = <<>>      \* any(... for txt in None)
            THEN [entries |-> acc,
                  raised |-> <<[exc |-> "TypeError", args |-> <<None>>]>>]
            ELSE IF Excluded(t.name, excl[1])
            THEN ExtractBankLoop(Tail(txns), acc, excl)
            ELSE ExtractBankLoop(Tail(txns), Append(acc, bank_txn(t)), excl)

\* src/importer/plaid.py Importer._extract_bank
_extract_bank(txns, excl) == ExtractBankLoop(txns, <<>>, excl)

InitBank ==
    /\ pc = "bank"
    /\ json_transactions \in SeqsUpTo(BankBatchTransactions, MaxTxns)
    /\ \E account \in BankAccounts : json_accounts = <<account>>
    /\ IdleApi
    /\ json_holdings = <<>>
    /\ entries = <<>> /\ returned = <<>> /\ error = <<>>
    /\ money_market_funds = {""}
    /\ exclude_descriptions \in {<<>>, << <<>> >>}
    /\ commodities = EmptyDict /\ transaction = <<>> /\ result = <<>>
    /\ IdleSec /\ IdleCmp

\* what an extraction leaves: the entries returned or the error raised
BankOutcome(out, done) ==
    /\ error' = out.raised
    /\ entries' = IF out.raised = <<>> THEN out.entries ELSE <<>>
    /\ returned' = IF out.raised = <<>> THEN <<out.entries>> ELSE <<>>
    /\ pc' = IF out.raised = <<>> THEN done ELSE done \o "_raised"
    /\ UNCHANGED <<secVars, handlerVars, json_transactions, json_accounts, json_holdings, apiVars, cmpVars>>

\* src/plaid_bank.py: Importer.extract on the file
PlaidBankExtract ==
    /\ pc = "bank"
    /\ BankOutcome(plaid_bank_extract(json_transactions, json_accounts[1]), "plaid_bank")

\* src/plaid.py: Importer.extract_transactions on the file
PlaidExtractTransactions ==
    /\ pc = "bank"
    /\ BankOutcome(extract_transactions(json_transactions, json_accounts[1]), "plaid")

\* src/importer/plaid.py: Importer._extract_bank on the file
ImporterExtractBank ==
    /\ pc = "bank"
    /\ BankOutcome(_extract_bank(json_transactions, exclude_descriptions), "importer")

NextBank == PlaidBankExtract \/ PlaidExtractTransactions \/ ImporterExtractBank

SpecBank == InitBank /\ [][NextBank]_vars

(***************************************************************************)
(* The holdings of src/importer/plaid.py: _investment_create_bals and      *)
(* _investment_create_prices.  A date is the number of days since          *)
(* 1970-01-01; a timestamp the file leaves null is <<>>.                   *)
(***************************************************************************)
\* date(1970, 1, 1), standing for a timestamp that is None
epoch_date == 0

\* date(1971, 1, 2): 1970 has 365 days
price_cutoff_date == 366

\* balance_timedelta=timedelta(days=1), the default of the constructor
balance_timedelta == 1

\* data.Balance(meta, date, account, amount, None, None), meta carrying the
\* index of the holding
HoldingBalance(index, date, account, number, currency) ==
    [lineno |-> index, date |-> date, account |-> account,
     number |-> number, currency |-> currency]

\* data.Price(meta, date, currency, amount)
Price(index, date, currency, number, price_currency) ==
    [lineno |-> index, date |-> date, currency |-> currency,
     price |-> number, price_currency |-> price_currency]

\* the security tables of the holdings: one security, its close price and
\* close_price_as_of
HoldingSecurityTables ==
    {[id \in {"S1"} |->
        [security_id |-> "S1", ticker_symbol |-> tk, name |-> "Fund A",
         is_cash_equivalent |-> FALSE, close_price |-> cp, close_price_as_of |-> cd,
         iso_currency_code |-> cur]] :
        tk \in {"XYZ", None}, cp \in {1, 7}, cd \in {<<>>, <<367>>, <<368>>},
        cur \in {"USD", "EUR"}}

\* the holdings a file may list
Holdings ==
    {[account_id |-> acc, security_id |-> "S1", quantity |-> 3,
      institution_price |-> ip, institution_price_as_of |-> idate,
      iso_currency_code |-> cur] :
        acc \in {account_id, "acc-2"}, ip \in {1, 9},
        idate \in {<<>>, <<366>>, <<367>>, <<368>>}, cur \in {"USD", "CAD"}}

RECURSIVE CreateBalsLoop(_, _, _, _)
\* _investment_create_bals, lines 463-474: the loop over the enumerated
\* holdings, index the position of the next one
CreateBalsLoop(holdings, index, secs, acc) ==
    IF holdings = <<>> THEN [entries |-> acc, raised |-> <<>>]
    ELSE LET holding == Head(holdings)
             ticker == secs[holding.security_id].ticker_symbol
         IN IF EnumerateSkips(holding) \/ holding.account_id # account_id
            THEN CreateBalsLoop(Tail(holdings), index + 1, secs, acc)
            ELSE IF holding.security_id \notin DOMAIN secs
            THEN [entries |-> acc,
                  raised |-> <<[exc |-> "KeyError", args |-> <<holding.security_id>>]>>]
            ELSE IF holding.institution_price_as_of = <<>>       \* parse(None)
            THEN [entries |-> acc,
                  raised |-> <<[exc |-> "TypeError", args |-> <<None>>]>>]
            ELSE CreateBalsLoop(Tail(holdings), index + 1, secs,
                    Append(acc,
                        HoldingBalance(index,
                            holding.institution_price_as_of[1] + balance_timedelta,
                            account_name \o ":" \o ticker, holding.quantity, ticker)))

\* Importer._investment_create_bals
_investment_create_bals(holdings, secs) == CreateBalsLoop(holdings, 0, secs, <<>>)

\* mutant: the close price is taken at equal dates too
SecurityIsLatestOrEqual(s_date, h_date) == s_date >= h_date

\* line 497: if s_date > h_date
SecurityIsLatest(s_date, h_date) == s_date > h_date

\* mutant: only the date 1970-01-01 is left out
EmitsPriceAfterEpoch(price, latest_date) == price # 1 /\ latest_date > epoch_date

\* line 507: if price != ONE and latest_date > date(1971, 1, 2)
EmitsPrice(price, latest_date) == price # 1 /\ latest_date > price_cutoff_date

RECURSIVE CreatePricesLoop(_, _, _, _)
\* _investment_create_prices, lines 488-509: the loop over the enumerated
\* holdings
CreatePricesLoop(holdings, index, secs, acc) ==
    IF holdings = <<>> THEN [entries |-> acc, raised |-> <<>>]
    ELSE LET holding == Head(holdings)
             sec == secs[holding.security_id]
             h_date == IF holding.institution_price_as_of # <<>>
                       THEN holding.institution_price_as_of[1] ELSE epoch_date
             s_date == IF sec.close_price_as_of # <<>>
                       THEN sec.close_price_as_of[1] ELSE epoch_date
             fromSec == SecurityIsLatest(s_date, h_date)
             price == IF fromSec THEN sec.close_price ELSE holding.institution_price
             currency == IF fromSec THEN sec.iso_currency_code ELSE holding.iso_currency_code
             latest_date == IF fromSec THEN s_date ELSE h_date
         IN IF EnumerateSkips(holding) \/ holding.account_id # account_id
            THEN CreatePricesLoop(Tail(holdings), index + 1, secs, acc)
            ELSE IF holding.security_id \notin DOMAIN secs
            THEN [entries |-> acc,
                  raised |-> <<[exc |-> "KeyError", args |-> <<holding.security_id>>]>>]
            ELSE IF EmitsPrice(price, latest_date)
            THEN CreatePricesLoop(Tail(holdings), index + 1, secs,
                    Append(acc, Price(index, latest_date, sec.ticker_symbol, price, currency)))
            ELSE CreatePricesLoop(Tail(holdings), index + 1, secs, acc)

\* Importer._investment_create_prices
_investment_create_prices(holdings, secs) == CreatePricesLoop(holdings, 0, secs, <<>>)

InitHoldings ==
    /\ pc = "holdings"
    /\ securities \in HoldingSecurityTables
    /\ holdings_secs = <<>> /\ transactions_secs = <<>> /\ security = <<>>
    /\ json_holdings \in SeqsUpTo(Holdings, MaxTxns)
    /\ json_transactions = <<>> /\ json_accounts = <<>> /\ IdleApi
    /\ entries = <<>> /\ returned = <<>> /\ error = <<>>
    /\ IdleHandler /\ IdleCmp

\* what a projection over the holdings leaves
HoldingsOutcome(out, done) ==
    /\ error' = out.raised
    /\ entries' = IF out.raised = <<>> THEN out.entries ELSE <<>>
    /\ returned' = IF out.raised = <<>> THEN <<out.entries>> ELSE <<>>
    /\ pc' = IF out.raised = <<>> THEN done ELSE done \o "_raised"
    /\ UNCHANGED <<secVars, handlerVars, json_transactions, json_accounts, json_holdings, apiVars, cmpVars>>

\* Importer._investment_create_bals on the holdings of the file
InvestmentCreateBals ==
    /\ pc = "holdings"
    /\ HoldingsOutcome(_investment_create_bals(json_holdings, securities), "bals")

\* Importer._investment_create_prices on the holdings of the file
InvestmentCreatePrices ==
    /\ pc = "holdings"
    /\ HoldingsOutcome(_investment_create_prices(json_holdings, securities), "prices")

NextHoldings == InvestmentCreateBals \/ InvestmentCreatePrices

SpecHoldings == InitHoldings /\ [][NextHoldings]_vars

(***************************************************************************)
(* Importer.deduplicate of src/plaid_investment.py.  An entry of a ledger  *)
(* carries its own metadata; posting.meta is <<>> for None, else <<dict>>. *)
(***************************************************************************)
DUPLICATE == "__duplicate__"

\* a data.Transaction of a ledger, with its metadata
LedgerTransaction(meta, date, postings) ==
    [meta |-> meta, date |-> date, postings |-> postings]

\* a data.Balance of a ledger
LedgerBalance(meta, date, account) == [meta |-> meta, date |-> date, account |-> account]

\* isinstance(entry, data.Transaction)
IsTransaction(entry) == "postings" \in DOMAIN entry

RECURSIVE ExistingPostingIds(_, _)
\* lines 199-201: the loop over the postings of an existing transaction;
\* 'transaction_id' in posting.meta raises TypeError when meta is None
ExistingPostingIds(postings, ids) ==
    IF postings = <<>> THEN [ids |-> ids, raised |-> <<>>]
    ELSE LET posting == Head(postings) IN
         IF posting.meta = <<>>
         THEN [ids |-> ids, raised |-> <<[exc |-> "TypeError", args |-> <<None>>]>>]
         ELSE IF "transaction_id" \in DOMAIN posting.meta[1]
         THEN ExistingPostingIds(Tail(postings), ids \cup {posting.meta[1].transaction_id})
         ELSE ExistingPostingIds(Tail(postings), ids)

RECURSIVE PlaidIds(_, _)
\* lines 197-201: the set plaid_ids built from the existing entries
PlaidIds(existing, ids) ==
    IF existing = <<>> THEN [ids |-> ids, raised |-> <<>>]
    ELSE IF ~IsTransaction(Head(existing)) THEN PlaidIds(Tail(existing), ids)
    ELSE LET r == ExistingPostingIds(Head(existing).postings, ids) IN
         IF r.raised # <<>> THEN r ELSE PlaidIds(Tail(existing), r.ids)

\* lines 206-207: the posting of a new entry carries an identifier of the set
PostingMatches(posting, ids) ==
    /\ posting.meta # <<>>
    /\ "transaction_id" \in DOMAIN posting.meta[1]
    /\ posting.meta[1].transaction_id \in ids

\* lines 204-211: the entry appended to marked
Marked(entry, ids) ==
    IF IsTransaction(entry)
       /\ \E i \in 1..Len(entry.postings) : PostingMatches(entry.postings[i], ids)
    THEN [entry EXCEPT !.meta = Put(@, DUPLICATE, TRUE)]
    ELSE entry

\* Importer.deduplicate(entries, existing)
deduplicate(new_entries, existing) ==
    LET r == PlaidIds(existing, {}) IN
    IF r.raised # <<>> THEN [entries |-> <<>>, raised |-> r.raised]
    ELSE [entries |-> [i \in 1..Len(new_entries) |-> Marked(new_entries[i], r.ids)],
          raised |-> <<>>]

\* new_metadata(filename, lineno)
EntryMeta == [filename |-> "ledger", lineno |-> "1"]

\* a posting of a ledger with the given metadata
LedgerPosting(meta) == Posting("Assets:Inv:Cash", 10, "USD", <<>>, <<>>, meta)

\* the entries of the existing ledger
ExistingLedgerEntries ==
    { LedgerTransaction(EntryMeta, 1, << LedgerPosting(<<[transaction_id |-> "X"]>>) >>),
      LedgerTransaction(EntryMeta, 1, << LedgerPosting(<<[transaction_id |-> "Y"]>>),
                                         LedgerPosting(<<EntryMeta>>) >>),
      LedgerTransaction(EntryMeta, 2, << LedgerPosting(<<[transaction_id |-> "Y"]>>),
                                         LedgerPosting(<<>>) >>),
      LedgerBalance(EntryMeta, 2, "Assets:Inv:Cash") }

\* the entries just extracted
NewLedgerEntries ==
    { LedgerTransaction(EntryMeta, 3, << LedgerPosting(<<[transaction_id |-> "X"]>>),
                                         LedgerPosting(<<>>) >>),
      LedgerTransaction(EntryMeta, 3, << LedgerPosting(<<>>),
                                         LedgerPosting(<<[transaction_id |-> "Y"]>>) >>),
      LedgerTransaction(EntryMeta, 4, << LedgerPosting(<<EntryMeta>>) >>),
      LedgerBalance(EntryMeta, 4, "Assets:Inv:Cash") }

InitDeduplicate ==
    /\ pc = "deduplicate"
    /\ existing_entries \in SeqsUpTo(ExistingLedgerEntries, MaxTxns)
    /\ entries \in SeqsUpTo(NewLedgerEntries, MaxTxns)
    /\ returned = <<>> /\ error = <<>>
    /\ plaid_client = <<>> /\ output_file = <<>> /\ offset = 0
    /\ total_transactions = <<>> /\ responses = <<>> /\ requests = <<>>
    /\ json_transactions = <<>> /\ json_accounts = <<>> /\ json_holdings = <<>>
    /\ IdleSec /\ IdleHandler /\ IdleCmp

\* Importer.deduplicate(entries, existing): returns marked, or raises
Deduplicate ==
    /\ pc = "deduplicate"
    /\ LET out == deduplicate(entries, existing_entries)
       IN /\ error' = out.raised
          /\ returned' = IF out.raised = <<>> THEN <<out.entries>> ELSE <<>>
          /\ pc' = IF out.raised = <<>> THEN "deduplicated" ELSE "deduplicate_raised"
    /\ UNCHANGED <<secVars, handlerVars, cmpVars, json_transactions, json_accounts,
                   json_holdings, entries, existing_entries, plaid_client, output_file,
                   offset, total_transactions, responses, requests>>

NextDeduplicate == Deduplicate

SpecDeduplicate == InitDeduplicate /\ [][NextDeduplicate]_vars

(***************************************************************************)
(* PlaidDownloader.download of src/utils/download.py.  The Plaid service   *)
(* is a record that says which calls succeed; a get_* helper returns None  *)
(* when its call raises plaid.ApiException.                                *)
(***************************************************************************)
\* the ways the service may answer one download, with self.refresh
PlaidClients ==
    [refresh : BOOLEAN, refresh_ok : BOOLEAN, item_ok : BOOLEAN,
     products : SUBSET {"transactions", "investments"},
     transactions_ok : BOOLEAN, investment_transactions_ok : BOOLEAN,
     holdings_ok : BOOLEAN]

\* lines 199-203: output['resp_transactions'] when the item has the product
\* and get_transactions returned a response
TransactionsKeys(client) ==
    IF "transactions" \in client.products /\ client.transactions_ok
    THEN {"resp_transactions"} ELSE {}

\* lines 206-215: the two investment downloads
InvestmentsKeys(client) ==
    IF "investments" \in client.products
    THEN (IF client.investment_transactions_ok THEN {"resp_investment_transactions"} ELSE {})
         \cup (IF client.holdings_ok THEN {"resp_investment_holdings"} ELSE {})
    ELSE {}

\* lines 193-219: the keys of output when the file is written, <<>> when
\* get_item returned None and nothing is written
OutputWritten(client) ==
    IF client.item_ok
    THEN << {"resp_item"} \cup TransactionsKeys(client) \cup InvestmentsKeys(client) >>
    ELSE <<>>

\* line 221: return True
download(client) == TRUE

InitDownload ==
    /\ pc = "download"
    /\ plaid_client \in {<<client>> : client \in PlaidClients}
    /\ output_file = <<>>
    /\ existing_entries = <<>> /\ offset = 0 /\ total_transactions = <<>> /\ responses = <<>>
    /\ requests = <<>>
    /\ json_transactions = <<>> /\ json_accounts = <<>> /\ json_holdings = <<>>
    /\ entries = <<>> /\ returned = <<>> /\ error = <<>>
    /\ IdleSec /\ IdleHandler /\ IdleCmp

\* PlaidDownloader.download(filename)
Download ==
    /\ pc = "download"
    /\ output_file' = OutputWritten(plaid_client[1])
    /\ returned' = <<download(plaid_client[1])>>
    /\ pc' = "downloaded"
    /\ UNCHANGED <<secVars, handlerVars, cmpVars, json_transactions, json_accounts,
                   json_holdings, entries, error, existing_entries, plaid_client,
                   offset, total_transactions, responses, requests>>

NextDownload == Download

SpecDownload == InitDownload /\ [][NextDownload]_vars

(***************************************************************************)
(* Paginated downloads of PlaidApi, src/downloader/plaid_api/__init__.py.  *)
(* The service answers each request with a page and a total; the page     *)
(* holds the transactions that follow the requested offset, numbered by   *)
(* their position in the account's history.                                *)
(***************************************************************************)
MaxPage == 2        \* longest page the service returns
MaxTotal == 3       \* largest total the service reports
MaxEmptyPages == 2  \* requests after which the service stops returning empty pages

\* the transactions at positions from+1 .. from+k
PageOf(from, k) == [i \in 1..k |-> from + i]

\* client.transactions_get(request).to_dict()
TransactionsGetResponse(from, k, t) ==
    [transactions |-> PageOf(from, k), total_transactions |-> t]

\* client.investments_transactions_get(request).to_dict()
InvestmentsTransactionsGetResponse(from, k, t) ==
    [investment_transactions |-> PageOf(from, k), total_investment_transactions |-> t]

\* lines 245-246, 302-303: total_transactions is taken from the first response
TotalAfter(total, t) == IF total = <<>> THEN <<t>> ELSE total

LoopBreaksAbove(off, total) == off > total

\* lines 249, 306: if offset >= total_transactions: break
LoopBreaks(off, total) == off >= total

InitPagination ==
    /\ pc \in {"get_transactions", "get_investment_transactions"}
    /\ offset = 0
    /\ total_transactions = <<>>
    /\ responses = <<>>
    /\ requests = <<>>
    /\ existing_entries = <<>> /\ plaid_client = <<>> /\ output_file = <<>>
    /\ json_transactions = <<>> /\ json_accounts = <<>> /\ json_holdings = <<>>
    /\ entries = <<>> /\ returned = <<>> /\ error = <<>>
    /\ IdleSec /\ IdleHandler /\ IdleCmp

\* one pass of the while loop once the service answered `response`, whose
\* page has k transactions and whose total is t; the break returns responses
LoopPass(response, k, t, next) ==
    /\ requests' = Append(requests, offset)
    /\ responses' = Append(responses, response)
    /\ total_transactions' = TotalAfter(total_transactions, t)
    /\ offset' = offset + k
    /\ IF LoopBreaks(offset', total_transactions'[1])
       THEN pc' = "returned_responses" /\ returned' = <<responses'>>
       ELSE pc' = next /\ UNCHANGED returned
    /\ UNCHANGED <<secVars, handlerVars, cmpVars, json_transactions, json_accounts,
                   json_holdings, entries, error, existing_entries, plaid_client,
                   output_file>>

\* PlaidApi.get_transactions, one pass of its loop (lines 232-250)
TransactionsGet(k, t) ==
    /\ pc = "get_transactions"
    /\ k = 0 => Len(responses) < MaxEmptyPages
    /\ LoopPass(TransactionsGetResponse(offset, k, t), k, t, "get_transactions")

\* PlaidApi.get_investment_transactions, one pass of its loop (lines 289-307)
InvestmentsTransactionsGet(k, t) ==
    /\ pc = "get_investment_transactions"
    /\ k = 0 => Len(responses) < MaxEmptyPages
    /\ LoopPass(InvestmentsTransactionsGetResponse(offset, k, t), k, t,
                "get_investment_transactions")

GetTransactions == \E k \in 0..MaxPage, t \in 0..MaxTotal : TransactionsGet(k, t)

GetInvestmentTransactions ==
    \E k \in 0..MaxPage, t \in 0..MaxTotal : InvestmentsTransactionsGet(k, t)

NextPagination == GetTransactions \/ GetInvestmentTransactions

\* the service eventually returns the transactions that remain: a request is
\* eventually answered with a page that is not empty
ServiceReturnsRemaining ==
    /\ WF_vars(\E k \in 1..MaxPage, t \in 0..MaxTotal : TransactionsGet(k, t))
    /\ WF_vars(\E k \in 1..MaxPage, t \in 0..MaxTotal : InvestmentsTransactionsGet(k, t))

SpecPagination == InitPagination /\ [][NextPagination]_vars /\ ServiceReturnsRemaining

(***************************************************************************)
(* PlaidSimilarityComparator of src/plaid.py                               *)
(***************************************************************************)
\* interpolate.AUTOMATIC_META
AUTOMATIC_META == "__automatic__"

\* the strings of the keys, in the order Python sorts them
StringOrder == <<"Assets:Bank", "Assets:Inv:Cash", "USD", "X", "Y">>

StrRank(str) == CHOOSE i \in 1..Len(StringOrder) : StringOrder[i] = str

\* key1 < key2 for tuples (account, plaid_id, currency)
KeyLess(k1, k2) ==
    \E i \in 1..3 :
        /\ \A j \in 1..(i - 1) : k1[j] = k2[j]
        /\ StrRank(k1[i]) < StrRank(k2[i])

RECURSIVE Sorted(_)
\* sorted(common_keys)
Sorted(keys) ==
    IF keys = {} THEN <<>>
    ELSE LET least == CHOOSE k \in keys : \A other \in keys \ {k} : KeyLess(k, other)
         IN <<least>> \o Sorted(keys \ {least})

\* mutant: interpolated postings are not left out
SkipsPostingKeepsAutomatic(posting) ==
    \/ posting.meta = <<>> \/ DOMAIN posting.meta[1] = {}
    \/ "plaid_id" \notin DOMAIN posting.meta[1]

\* amounts_map, lines 381-385: the postings that are left out
SkipsPosting(posting) ==
    \/ posting.meta = <<>> \/ DOMAIN posting.meta[1] = {}        \* not posting.meta
    \/ AUTOMATIC_META \in DOMAIN posting.meta[1]
    \/ "plaid_id" \notin DOMAIN posting.meta[1]

RECURSIVE AmountsOf(_, _)
\* amounts_map, lines 380-390: the loop over the postings, amounts so far
AmountsOf(postings, amounts) ==
    IF postings = <<>> THEN amounts
    ELSE LET posting == Head(postings)
             key == <<posting.account, posting.meta[1].plaid_id, posting.currency>>
         IN IF SkipsPosting(posting) \/ posting.currency = None   \* no units, no currency
            THEN AmountsOf(Tail(postings), amounts)
            ELSE AmountsOf(Tail(postings),
                    Put(amounts, key,
                        (IF key \in DOMAIN amounts THEN amounts[key] ELSE 0) + posting.number))

\* amounts_map
amounts_map(entry) == AmountsOf(entry.postings, EmptyDict)

Abs(n) == IF n < 0 THEN -n ELSE n
Max(a, b) == IF a > b THEN a ELSE b
Min(a, b) == IF a < b THEN a ELSE b

\* lines 356-358 and 359: diff == ZERO, one of the two numbers is zero
DiffIsZero(number1, number2) ==
    IF number2 # 0 THEN number1 = 0 ELSE TRUE

\* mutant: a ratio of exactly 1.05 counts as within the tolerance
WithinEpsilonNonStrict(number1, number2) ==
    20 * Max(Abs(number1), Abs(number2)) <= 21 * Min(Abs(number1), Abs(number2))

\* mutant: the ratio is not turned to >= 1
WithinEpsilonNoInversion(number1, number2) ==
    number2 # 0 /\ 20 * Abs(number1) < 21 * Abs(number2)

\* lines 356-363: diff = |number1 / number2|, turned to >= 1, and
\* (diff - ONE) < EPSILON with EPSILON = 0.05, that is 20 * larger < 21 * smaller
WithinEpsilon(number1, number2) ==
    20 * Max(Abs(number1), Abs(number2)) < 21 * Min(Abs(number1), Abs(number2))

RECURSIVE ScanKeys(_, _, _)
\* lines 350-368: the for loop over the sorted common keys
ScanKeys(keys, amounts1, amounts2) ==
    IF keys = <<>> THEN FALSE                                   \* for ... else
    ELSE LET number1 == amounts1[Head(keys)]
             number2 == amounts2[Head(keys)]
         IN IF number1 = 0 /\ number2 = 0 THEN TRUE             \* break
            ELSE IF DiffIsZero(number1, number2) THEN FALSE     \* return False
            ELSE IF WithinEpsilon(number1, number2) THEN TRUE   \* break
            ELSE ScanKeys(Tail(keys), amounts1, amounts2)

\* mutant: dates exactly max_date_delta apart are rejected too
DateRejectsAtTolerance(max_date_delta, date1, date2) ==
    /\ max_date_delta # <<>>
    /\ Abs(date1 - date2) >= max_date_delta[1]

\* lines 332-337: the date check
DateRejects(max_date_delta, date1, date2) ==
    /\ max_date_delta # <<>>
    /\ (IF date1 > date2 THEN date1 - date2 ELSE date2 - date1) > max_date_delta[1]

\* mutant: any cached map is taken for the entry
CachedOfAny(c, entry) ==
    IF DOMAIN c # {} THEN c[CHOOSE e \in DOMAIN c : TRUE] ELSE amounts_map(entry)

\* self.cache[id(entry)] when present, else amounts_map(entry)
Cached(c, entry) == IF entry \in DOMAIN c THEN c[entry] ELSE amounts_map(entry)

\* PlaidSimilarityComparator.__call__: the value returned
Compare(max_date_delta, c, entry1, entry2) ==
    IF DateRejects(max_date_delta, entry1.date, entry2.date) THEN FALSE
    ELSE LET amounts1 == Cached(c, entry1)
             amounts2 == Cached(c, entry2)
         IN ScanKeys(Sorted(DOMAIN amounts1 \cap DOMAIN amounts2), amounts1, amounts2)

\* PlaidSimilarityComparator.__call__: the cache it leaves
CacheAfter(max_date_delta, c, entry1, entry2) ==
    IF DateRejects(max_date_delta, entry1.date, entry2.date) THEN c
    ELSE LET c1 == IF entry1 \in DOMAIN c THEN c ELSE Put(c, entry1, amounts_map(entry1))
         IN IF entry2 \in DOMAIN c1 THEN c1 ELSE Put(c1, entry2, amounts_map(entry2))

\* the metadata a posting of a ledger may carry
PostingMetas ==
    {<<>>, <<[plaid_id |-> "X"]>>, <<[plaid_id |-> "Y"]>>,
     <<[k \in {"plaid_id", AUTOMATIC_META} |-> IF k = "plaid_id" THEN "X" ELSE None]>>}

CmpPostings ==
    {Posting("Assets:Bank", n, "USD", <<>>, <<>>, m) : n \in {-10, 0, 10}, m \in PostingMetas}

\* the entries handed to the comparator: up to two postings each
CmpEntries ==
    {Transaction(d, None, "narration", ps) :
        d \in {1, 2},
        ps \in {<<>>} \cup {<<p>> : p \in CmpPostings}
                      \cup {<<p, q>> : p \in CmpPostings, q \in CmpPostings}}

InitCompare ==
    /\ pc = "compare"
    /\ cmp_max_date_delta \in {<<>>, <<0>>, <<1>>}
    /\ cache = EmptyDict
    /\ cmp_entry1 = <<>> /\ cmp_entry2 = <<>> /\ cmp_result = <<>>
    /\ IdleSec /\ IdleHandler /\ IdleExtract

\* one __call__(entry1, entry2) of a fresh comparator
Call__ ==
    /\ pc = "compare"
    /\ \E entry1 \in CmpEntries, entry2 \in CmpEntries :
          /\ cmp_entry1' = <<entry1>>
          /\ cmp_entry2' = <<entry2>>
          /\ cmp_result' = <<Compare(cmp_max_date_delta, cache, entry1, entry2)>>
          /\ cache' = CacheAfter(cmp_max_date_delta, cache, entry1, entry2)
    /\ pc' = "compared"
    /\ UNCHANGED <<cmp_max_date_delta, secVars, handlerVars, extractVars>>

NextCompare == Call__

SpecCompare == InitCompare /\ [][NextCompare]_vars

\* the amounts of the tolerance cases: ratios 1.04, 1.05 and 1.06 to 100
ToleranceNumbers == {-100, 0, 100, 104, 105, 106}

\* postings that carry plaid_id X or Y, as the importers make them
TolerancePostings ==
    {Posting("Assets:Bank", n, "USD", <<>>, <<>>, <<[plaid_id |-> id]>>) :
        n \in ToleranceNumbers, id \in {"X", "Y"}}

\* entries of one or two such postings, all of the same date
ToleranceEntries ==
    {Transaction(1, None, "narration", ps) :
        ps \in {<<p>> : p \in TolerancePostings}
               \cup {<<p, q>> : p \in TolerancePostings, q \in TolerancePostings}}

InitTolerance ==
    /\ pc = "compare"
    /\ cmp_max_date_delta \in {<<>>, <<0>>}
    /\ cache = EmptyDict
    /\ cmp_entry1 = <<>> /\ cmp_entry2 = <<>> /\ cmp_result = <<>>
    /\ IdleSec /\ IdleHandler /\ IdleExtract

\* one __call__(entry1, entry2) of a fresh comparator on entries with the
\* amounts of the tolerance cases
CallTolerance ==
    /\ pc = "compare"
    /\ \E entry1 \in ToleranceEntries, entry2 \in ToleranceEntries :
          /\ cmp_entry1' = <<entry1>>
          /\ cmp_entry2' = <<entry2>>
          /\ cmp_result' = <<Compare(cmp_max_date_delta, cache, entry1, entry2)>>
          /\ cache' = CacheAfter(cmp_max_date_delta, cache, entry1, entry2)
    /\ pc' = "compared"
    /\ UNCHANGED <<cmp_max_date_delta, secVars, handlerVars, extractVars>>

NextTolerance == CallTolerance

SpecTolerance == InitTolerance /\ [][NextTolerance]_vars

\* the metadata of a posting: none, an empty dict, an identifier, an
\* identifier with the marker of an interpolated posting
MapMetas ==
    {<<>>, <<EmptyDict>>, <<[plaid_id |-> "X"]>>, <<[plaid_id |-> "Y"]>>,
     <<[k \in {"plaid_id", AUTOMATIC_META} |-> IF k = "plaid_id" THEN "X" ELSE None]>>}

\* postings on two accounts; the currency is None when the institution
\* reports no iso_currency_code
MapPostings ==
    {Posting(a, n, c, <<>>, <<>>, m) :
        a \in {"Assets:Bank", "Assets:Inv:Cash"}, n \in {-10, 10},
        c \in {"USD", None}, m \in MapMetas}

\* entry1 has up to two postings, entry2 up to one
MapEntries1 ==
    {Transaction(1, None, "narration", ps) :
        ps \in {<<>>} \cup {<<p>> : p \in MapPostings}
                      \cup {<<p, q>> : p \in MapPostings, q \in MapPostings}}

MapEntries2 ==
    {Transaction(1, None, "narration", ps) :
        ps \in {<<>>} \cup {<<p>> : p \in MapPostings}}

InitMap ==
    /\ pc = "compare"
    /\ cmp_max_date_delta = <<>>
    /\ cache = EmptyDict
    /\ cmp_entry1 = <<>> /\ cmp_entry2 = <<>> /\ cmp_result = <<>>
    /\ IdleSec /\ IdleHandler /\ IdleExtract

\* one __call__(entry1, entry2) of a fresh comparator; the cache it leaves
\* holds amounts_map(entry1) and amounts_map(entry2)
CallMap ==
    /\ pc = "compare"
    /\ \E entry1 \in MapEntries1, entry2 \in MapEntries2 :
          /\ cmp_entry1' = <<entry1>>
          /\ cmp_entry2' = <<entry2>>
          /\ cmp_result' = <<Compare(cmp_max_date_delta, cache, entry1, entry2)>>
          /\ cache' = CacheAfter(cmp_max_date_delta, cache, entry1, entry2)
    /\ pc' = "compared"
    /\ UNCHANGED <<cmp_max_date_delta, secVars, handlerVars, extractVars>>

NextMap == CallMap

SpecMap == InitMap /\ [][NextMap]_vars

\* the live entries one comparator is called on, again and again
CachePool ==
    { Transaction(1, None, "narration",
          << Posting("Assets:Bank", 10, "USD", <<>>, <<>>, <<[plaid_id |-> "X"]>>) >>),
      Transaction(1, None, "narration",
          << Posting("Assets:Bank", -10, "USD", <<>>, <<>>, <<[plaid_id |-> "X"]>>),
             Posting("Assets:Bank", 10, "USD", <<>>, <<>>, <<[plaid_id |-> "Y"]>>) >>),
      Transaction(2, None, "narration",
          << Posting("Assets:Bank", 0, "USD", <<>>, <<>>, <<[plaid_id |-> "X"]>>),
             Posting("Assets:Bank", 10, "USD", <<>>, <<>>, <<[plaid_id |-> "Y"]>>) >>),
      Transaction(3, None, "narration",
          << Posting("Assets:Bank", 10, "USD", <<>>, <<>>, <<>>) >>) }

InitCache ==
    /\ pc = "compare_again"
    /\ cmp_max_date_delta \in {<<>>, <<0>>, <<1>>}
    /\ cache = EmptyDict
    /\ cmp_entry1 = <<>> /\ cmp_entry2 = <<>> /\ cmp_result = <<>>
    /\ IdleSec /\ IdleHandler /\ IdleExtract

\* one __call__(entry1, entry2) of the comparator, which keeps its cache for
\* the calls that follow
CallCached ==
    /\ pc = "compare_again"
    /\ \E entry1 \in CachePool, entry2 \in CachePool :
          /\ cmp_entry1' = <<entry1>>
          /\ cmp_entry2' = <<entry2>>
          /\ cmp_result' = <<Compare(cmp_max_date_delta, cache, entry1, entry2)>>
          /\ cache' = CacheAfter(cmp_max_date_delta, cache, entry1, entry2)
    /\ UNCHANGED <<pc, cmp_max_date_delta, secVars, handlerVars, extractVars>>

NextCache == CallCached

SpecCache == InitCache /\ [][NextCache]_vars

(***************************************************************************)
(* Claims about the security table                                         *)
(***************************************************************************)
IdsOf(secs) == {secs[i].security_id : i \in 1..Len(secs)}

\* the record of identifier id that stands last in the list secs
LastRecord(secs, id) ==
    secs[CHOOSE i \in 1..Len(secs) :
            /\ secs[i].security_id = id
            /\ \A j \in (i + 1)..Len(secs) : secs[j].security_id # id]

\* C5: the table merged from several security lists holds every identifier
\* that occurs in any list, and an identifier that occurs in more than one
\* list maps to the record of the list processed last (last write wins); an
\* identifier of one list alone maps to that list's last record of it.
C5_LastWriteWins ==
    pc # "extract" =>
        /\ DOMAIN securities = IdsOf(holdings_secs) \cup IdsOf(transactions_secs)
        /\ \A id \in IdsOf(transactions_secs) :
              securities[id] = LastRecord(transactions_secs, id)
        /\ \A id \in IdsOf(holdings_secs) \ IdsOf(transactions_secs) :
              securities[id] = LastRecord(holdings_secs, id)

\* C5 witness: the list processed first has S1 without a symbol, the list
\* processed last has S1 with symbol ABC, and the merged table reports ABC.
C5_Witness ==
    /\ pc = "handlers"
    /\ \E i \in 1..Len(holdings_secs) :
          holdings_secs[i].security_id = "S1" /\ holdings_secs[i].ticker_symbol = None
    /\ \E i \in 1..Len(transactions_secs) :
          transactions_secs[i].security_id = "S1" /\ transactions_secs[i].ticker_symbol = "ABC"
    /\ "S2" \in DOMAIN securities
    /\ securities["S1"].ticker_symbol = "ABC"

\* C6: when an identifier is reported under the holdings and under the
\* investment-transaction history, the record a handler reads from the table
\* is the one of the holdings section.
C6_HoldingsAuthoritative ==
    (pc = "looked"
        /\ security[1].security_id \in IdsOf(holdings_secs) \cap IdsOf(transactions_secs))
    => security[1] = LastRecord(holdings_secs, security[1].security_id)

(***************************************************************************)
(* Claims about the handlers of src/importer/plaid.py (SpecHandlers)       *)
(***************************************************************************)
\* the transaction handed over, its security, what came back
T == transaction[1]
Sec == securities[T.security_id]
R == result[1]
Entry == R.entry[1]

\* the handler the table gives the transaction, "" when it lists none
CbOf(t) ==
    IF t.type \in DOMAIN inv_trans_cb /\ t.subtype \in DOMAIN inv_trans_cb[t.type]
    THEN inv_trans_cb[t.type][t.subtype] ELSE ""

\* the fee handler took its own two-posting branch
FeeOwnBranch == CbOf(T) = "invs_fees_account" /\ Sec.ticker_symbol = None /\ Sec.is_cash_equivalent

\* the transaction went through the compound handler and an entry came back
BuyPathEntry ==
    /\ pc = "handled"
    /\ R.entry # <<>>
    /\ \/ CbOf(T) \in {"invs_buy_sell", "invs_buy_reinvestment"}
       \/ CbOf(T) = "invs_fees_account" /\ ~FeeOwnBranch

\* the symbol the compound handler posts the position in
PostedTicker == IF Sec.ticker_symbol = None THEN "unknown" ELSE Sec.ticker_symbol

TracksCash == PostedTicker \in money_market_funds

TheDiscrepancy == T.amount - T.quantity[1] * T.price

\* the postings of entry e on account a
PostingsOn(e, a) == {i \in 1..Len(e.postings) : e.postings[i].account = a}

\* exactly one posting on account a, of number n
OnePostingOf(e, a, n) ==
    /\ Cardinality(PostingsOn(e, a)) = 1
    /\ \A i \in PostingsOn(e, a) : e.postings[i].number = n

C1_Routing(e) ==
    /\ (TheDiscrepancy # 0 /\ T.type = "sell") =>
            /\ OnePostingOf(e, gains_loss_account, TheDiscrepancy)
            /\ PostingsOn(e, rounding_account) = {}
    /\ (TheDiscrepancy # 0 /\ T.type # "sell") =>
            /\ OnePostingOf(e, rounding_account, TheDiscrepancy)
            /\ PostingsOn(e, gains_loss_account) = {}
    /\ TheDiscrepancy = 0 =>
            /\ PostingsOn(e, rounding_account) = {}
            /\ PostingsOn(e, gains_loss_account) = {}

\* C1 as claimed: every entry of the compound handler books a non-zero
\* discrepancy amount - quantity*price exactly once, to gains/loss for a sell
\* and to rounding otherwise, and books nothing for a zero discrepancy.
C1_DiscrepancyAlwaysRouted == BuyPathEntry => C1_Routing(Entry)

\* C1 amended: the routing holds for every entry of the compound handler
\* whose security is not a tracks-cash (money-market) instrument; for a
\* tracks-cash instrument neither posting is made, whatever the discrepancy.
C1_DiscrepancyRoutedUnlessTracksCash ==
    BuyPathEntry =>
        IF TracksCash
        THEN /\ PostingsOn(Entry, rounding_account) = {}
             /\ PostingsOn(Entry, gains_loss_account) = {}
        ELSE C1_Routing(Entry)

\* C1 witness: a sell with a non-zero discrepancy booked to gains/loss
C1_Witness ==
    /\ BuyPathEntry /\ ~TracksCash
    /\ T.type = "sell" /\ TheDiscrepancy # 0
    /\ OnePostingOf(Entry, gains_loss_account, TheDiscrepancy)

\* the example of the fee: buy/buy, amount 1010, fee 10, 10 units at 100
FeeExample(amt) ==
    /\ pc = "handled"
    /\ T.type = "buy" /\ T.subtype = "buy"
    /\ T.amount = amt /\ T.fees = 10 /\ T.quantity = <<10>> /\ T.price = 100
    /\ Sec.ticker_symbol = "XYZ"

FeeExampleHead(e, amt) ==
    /\ Len(e.postings) >= 3
    /\ e.postings[1].account = cash_account
    /\ e.postings[1].number = -(amt + 10) /\ e.postings[1].currency = "USD"
    /\ e.postings[2].account = fees_account
    /\ e.postings[2].number = 10 /\ e.postings[2].currency = "USD"
    /\ e.postings[3].account = account_name \o ":XYZ"
    /\ e.postings[3].number = 10 /\ e.postings[3].currency = "XYZ"
    /\ e.postings[3].cost = <<Cost(100, "USD", T.date)>>

\* C2 as claimed: the example entry has cash -1020, fee +10, the lot of 10 XYZ
\* at cost 100 USD, and no non-zero rounding-error posting.
C2_FeeIsolated ==
    FeeExample(1010) =>
        /\ R.entry # <<>>
        /\ FeeExampleHead(Entry, 1010)
        /\ \A i \in PostingsOn(Entry, rounding_account) : Entry.postings[i].number = 0

\* C2 amended: the example entry has cash -1020, fee +10, the lot of 10 XYZ at
\* cost 100 USD and a rounding-error posting of +10 USD: the discrepancy is
\* amount - quantity*price and the fee is not taken out of it.  With amount
\* 1000 (= quantity*price) and fee 10 the entry is cash -1010, fee +10 and
\* the lot, with no rounding-error posting.
C2_FeeNotNetted ==
    /\ FeeExample(1010) =>
        /\ R.entry # <<>>
        /\ FeeExampleHead(Entry, 1010)
        /\ Len(Entry.postings) = 4
        /\ OnePostingOf(Entry, rounding_account, 10)
    /\ FeeExample(1000) =>
        /\ R.entry # <<>>
        /\ FeeExampleHead(Entry, 1000)
        /\ Len(Entry.postings) = 3

\* C2 witness: the example went through the handler
C2_Witness ==
    /\ FeeExample(1010) /\ R.entry # <<>>
    /\ Entry.postings[1].number = -1020
    /\ Entry.postings[4].account = rounding_account

RECURSIVE SumOf(_, _, _)
\* the signed sum of the postings of ps in currency cur, cost lots left out
\* (byWeight = FALSE) or counted as quantity * unit cost in the cost currency
SumOf(ps, cur, byWeight) ==
    IF ps = <<>> THEN 0
    ELSE LET p == Head(ps)
             w == IF p.cost = <<>>
                  THEN (IF p.currency = cur THEN p.number ELSE 0)
                  ELSE (IF byWeight /\ p.cost[1].currency = cur
                        THEN p.number * p.cost[1].number ELSE 0)
         IN w + SumOf(Tail(ps), cur, byWeight)

CurrenciesOf(e) == {e.postings[i].currency : i \in 1..Len(e.postings)}

AnyEntry == pc \in {"handled", "bank_handled"} /\ R.entry # <<>>

\* C3 as claimed: in every synthesized entry the cash postings (cost lots
\* left out) sum to zero in each currency of the entry.
C3_CashSumsToZero ==
    AnyEntry => \A cur \in CurrenciesOf(Entry) : SumOf(Entry.postings, cur, FALSE) = 0

\* C3 amended: the postings sum to zero per currency in the entries of the
\* dividend/interest handler and of the fee handler's own branch; a cash
\* deposit and a cash withdrawal hold the single posting -amount; the cash
\* postings of a compound-handler entry sum to
\* -quantity*price and it is the cost lot, counted at quantity * unit cost,
\* that balances them (for a tracks-cash security they sum to -amount).
C3_CashSums ==
    /\ (pc = "handled" /\ R.entry # <<>>) =>
          /\ (CbOf(T) = "invs_cash_dividend" \/ FeeOwnBranch) =>
                /\ Len(Entry.postings) = 2
                /\ \A cur \in CurrenciesOf(Entry) : SumOf(Entry.postings, cur, FALSE) = 0
          /\ CbOf(T) \in {"invs_cash_deposit", "invs_cash_withdrawal"} =>
                /\ Len(Entry.postings) = 1
                /\ SumOf(Entry.postings, "USD", FALSE) = -T.amount
          /\ (BuyPathEntry /\ ~TracksCash) =>
                /\ SumOf(Entry.postings, "USD", FALSE) = -(T.quantity[1] * T.price)
                /\ SumOf(Entry.postings, "USD", TRUE) = 0
          /\ (BuyPathEntry /\ TracksCash) =>
                SumOf(Entry.postings, "USD", FALSE) = -T.amount

\* C3 witness: a dividend entry, balanced, with a non-zero amount
C3_Witness ==
    /\ pc = "handled" /\ R.entry # <<>>
    /\ CbOf(T) = "invs_cash_dividend" /\ T.amount # 0
    /\ SumOf(Entry.postings, "USD", FALSE) = 0

\* the posting of the entry that carries the external identifier
IdPostings(e) == {i \in 1..Len(e.postings) : e.postings[i].meta # <<>>}

\* C7: for a security without symbol the compound handler posts the position
\* in the commodity the ledger knows under the security's name, in "unknown"
\* only if the ledger knows none, and an entry is produced either way.
C7_AliasThenUnknown ==
    (pc = "handled" /\ CbOf(T) \in {"invs_buy_sell", "invs_buy_reinvestment"}
        /\ T.quantity # <<>> /\ Sec.ticker_symbol = None)
    => /\ R.entry # <<>>
       /\ \A i \in IdPostings(Entry) :
             Entry.postings[i].currency =
                IF Sec.name \in DOMAIN commodities
                THEN commodities[Sec.name] ELSE "unknown"

\* C8: a symbol that cannot be resolved (no symbol, no commodity of that name
\* in the ledger) makes the import fail where a cost lot needs it: no lot is
\* posted in a null or invented symbol.
C8_NoLotWithoutSymbol ==
    (pc = "handled" /\ Sec.ticker_symbol = None /\ Sec.name \notin DOMAIN commodities
        /\ CbOf(T) \in {"invs_buy_sell", "invs_buy_reinvestment"})
    => /\ R.raised # <<>>
       /\ R.entry = <<>>

\* C9: the fee handler on a security that is not cash-equivalent raises and
\* produces no entry; its two postings come only for a cash-equivalent one.
C9_FeeNeedsCashEquivalent ==
    (pc = "handled" /\ CbOf(T) = "invs_fees_account")
    => /\ ~Sec.is_cash_equivalent => (R.raised # <<>> /\ R.entry = <<>>)
       /\ R.entry # <<>> => (Sec.is_cash_equivalent /\ Len(Entry.postings) = 2)

(***************************************************************************)
(* Claims about _extract_investments (SpecInvest)                          *)
(***************************************************************************)
\* the pair has no real handler: not in the table, or unknown_transaction
Unsupported(t) == CbOf(t) \in {"", "unknown_transaction"}

\* the loop gets to transaction i: nothing before it raised
Reached(i) ==
    \A j \in 1..(i - 1) :
        LET t == json_transactions[j] IN
        EnumerateSkips(t) \/
            (~Unsupported(t) /\ exclude_descriptions # <<>>)

ArgsOf(err) == {err.args[k] : k \in 1..Len(err.args)}

\* C4: when the extraction gets to a transaction of the account whose pair
\* has no real handler, it raises an error that names the transaction id, the
\* type and the subtype, and returns no entry list.
C4_UnsupportedNamesIdTypeSubtype ==
    pc # "extract_investments" =>
        \A i \in 1..Len(json_transactions) :
            LET t == json_transactions[i] IN
            (~EnumerateSkips(t) /\ Unsupported(t) /\ Reached(i)) =>
                /\ pc = "raised" /\ returned = <<>> /\ error # <<>>
                /\ {t.investment_transaction_id, t.type, t.subtype} \subseteq ArgsOf(error[1])

(***************************************************************************)
(* Claims about PlaidSimilarityComparator (SpecCompare)                    *)
(***************************************************************************)
CE1 == cmp_entry1[1]
CE2 == cmp_entry2[1]

\* the posting carries the external identifier in its metadata
CarriesId(posting) == posting.meta # <<>> /\ "plaid_id" \in DOMAIN posting.meta[1]

\* two postings on the same account with the same identifier, amount and currency
SameIdAndAmount(p, q) ==
    /\ CarriesId(p) /\ CarriesId(q)
    /\ p.account = q.account
    /\ p.meta[1].plaid_id = q.meta[1].plaid_id
    /\ p.number = q.number
    /\ p.currency = q.currency

DatesWithinTolerance ==
    \/ cmp_max_date_delta = <<>>
    \/ Abs(CE1.date - CE2.date) <= cmp_max_date_delta[1]

\* posting i is the only posting of entry e that carries the identifier, and
\* it is not marked as interpolated
OnlyIdPosting(e, i) ==
    /\ CarriesId(e.postings[i])
    /\ AUTOMATIC_META \notin DOMAIN e.postings[i].meta[1]
    /\ \A k \in (1..Len(e.postings)) \ {i} : ~CarriesId(e.postings[k])

\* C10 as claimed: an existing and a new entry that each have a posting on
\* the same account with the same external id, amount and currency, dated
\* within the tolerance, compare as similar.
C10_SameIdSameAmountSimilar ==
    (/\ pc = "compared"
     /\ DatesWithinTolerance
     /\ \E i \in 1..Len(CE1.postings), j \in 1..Len(CE2.postings) :
            SameIdAndAmount(CE1.postings[i], CE2.postings[j]))
    => cmp_result = <<TRUE>>

\* C10 amended: the same, for entries that carry the external id on exactly
\* one posting each, not marked as interpolated (as every synthesized entry
\* does): the comparator compares the sums per (account, id, currency), so a
\* second posting with the same id changes the amount compared.
C10_SingleIdPostingSimilar ==
    (/\ pc = "compared"
     /\ DatesWithinTolerance
     /\ \E i \in 1..Len(CE1.postings), j \in 1..Len(CE2.postings) :
            /\ OnlyIdPosting(CE1, i) /\ OnlyIdPosting(CE2, j)
            /\ SameIdAndAmount(CE1.postings[i], CE2.postings[j]))
    => cmp_result = <<TRUE>>

\* C10 witness: id X with 10 USD on both sides, the dates exactly the
\* tolerance apart, the existing entry with a second posting without metadata
C10_Witness ==
    /\ pc = "compared"
    /\ cmp_max_date_delta = <<1>> /\ CE1.date = 1 /\ CE2.date = 2
    /\ Len(CE1.postings) = 2 /\ Len(CE2.postings) = 1
    /\ OnlyIdPosting(CE1, 1) /\ OnlyIdPosting(CE2, 1)
    /\ SameIdAndAmount(CE1.postings[1], CE2.postings[1])
    /\ CE1.postings[1].number = 10
    /\ cmp_result = <<TRUE>>

(***************************************************************************)
(* Claims about the tolerance and the scan of the comparator               *)
(***************************************************************************)
\* the keys the amount maps of the two entries share
SharedKeys == DOMAIN cache[CE1] \cap DOMAIN cache[CE2]

\* the ratio of the larger to the smaller of two non-zero amounts is below
\* 1.05, by cross-multiplication
RatioBelow105(a, b) ==
    /\ a # 0 /\ b # 0
    /\ 100 * Max(Abs(a), Abs(b)) < 105 * Min(Abs(a), Abs(b))

\* the two amounts of a shared key match: both zero, or within the tolerance
KeyMatches(k) ==
    \/ cache[CE1][k] = 0 /\ cache[CE2][k] = 0
    \/ RatioBelow105(cache[CE1][k], cache[CE2][k])

\* both entries went through the date check and the maps were made
Scanned == pc = "compared" /\ DatesWithinTolerance

\* C11: two entries whose only shared key has two non-zero amounts are
\* similar exactly when the ratio of the larger to the smaller amount is
\* strictly below 1.05; at a ratio of exactly 1.05 (100 and 105) and at 1.06
\* (100 and 106) they are not similar, at 1.04 (100 and 104) they are.
C11_StrictTolerance ==
    (/\ Scanned
     /\ Cardinality(SharedKeys) = 1
     /\ \A k \in SharedKeys : cache[CE1][k] # 0 /\ cache[CE2][k] # 0)
    => /\ cmp_result = <<\A k \in SharedKeys : RatioBelow105(cache[CE1][k], cache[CE2][k])>>
       /\ \A k \in SharedKeys :
            /\ {Abs(cache[CE1][k]), Abs(cache[CE2][k])} = {100, 106} => cmp_result = <<FALSE>>
            /\ {Abs(cache[CE1][k]), Abs(cache[CE2][k])} = {100, 105} => cmp_result = <<FALSE>>
            /\ {Abs(cache[CE1][k]), Abs(cache[CE2][k])} = {100, 104} => cmp_result = <<TRUE>>

\* C11 witness: one posting each under the same key, 100 against 105, found
\* not similar
C11_Witness ==
    /\ Scanned
    /\ Len(CE1.postings) = 1 /\ Len(CE2.postings) = 1
    /\ SharedKeys = {<<"Assets:Bank", "X", "USD">>}
    /\ CE1.postings[1].number = 100 /\ CE2.postings[1].number = 105
    /\ cmp_result = <<FALSE>>

\* C12: for two entries that pass the date check the comparator returns true
\* if and only if some shared key has two amounts that are both zero or
\* within the tolerance; a shared key that does not match does not keep
\* another one from matching.
C12_AnySharedKeyMatches ==
    Scanned => cmp_result = <<\E k \in SharedKeys : KeyMatches(k)>>

(***************************************************************************)
(* Claims about amounts_map                                                *)
(***************************************************************************)
\* the postings of entry e that carry the identifier and are not marked as
\* interpolated
IdPostingsOf(e) ==
    {i \in 1..Len(e.postings) :
        /\ CarriesId(e.postings[i])
        /\ AUTOMATIC_META \notin DOMAIN e.postings[i].meta[1]}

\* (account, external id, currency) of a posting that carries the identifier
GroupKey(posting) == <<posting.account, posting.meta[1].plaid_id, posting.currency>>

RECURSIVE SumNumbers(_, _)
\* the signed sum of the amounts of the postings of e at the positions in idx
SumNumbers(e, idx) ==
    IF idx = {} THEN 0
    ELSE LET i == CHOOSE j \in idx : TRUE
         IN e.postings[i].number + SumNumbers(e, idx \ {i})

\* the map of e has exactly the keys of the postings in idx, each with the
\* signed sum of its group
MapIsSumOver(e, idx) ==
    /\ DOMAIN cache[e] = {GroupKey(e.postings[i]) : i \in idx}
    /\ \A k \in DOMAIN cache[e] :
          cache[e][k] = SumNumbers(e, {i \in idx : GroupKey(e.postings[i]) = k})

\* C13 as claimed: the map of an entry has one key (account, identifier,
\* currency) per group of postings that carry the identifier and are not
\* marked as interpolated, with the signed sum of the group; every other
\* posting contributes nothing; entries whose maps share no key are not
\* similar.
C13_MapOfIdPostings ==
    pc = "compared" =>
        /\ MapIsSumOver(CE1, IdPostingsOf(CE1))
        /\ MapIsSumOver(CE2, IdPostingsOf(CE2))
        /\ SharedKeys = {} => cmp_result = <<FALSE>>

\* C13 amended: the same, the groups being made of the postings that carry
\* the identifier, are not marked as interpolated and have an amount in a
\* named currency; a posting whose amount has no currency contributes
\* nothing either.
C13_MapOfIdPostingsWithCurrency ==
    pc = "compared" =>
        /\ MapIsSumOver(CE1, {i \in IdPostingsOf(CE1) : CE1.postings[i].currency # None})
        /\ MapIsSumOver(CE2, {i \in IdPostingsOf(CE2) : CE2.postings[i].currency # None})
        /\ SharedKeys = {} => cmp_result = <<FALSE>>

\* C13 witness: two postings of one group summed to zero under one key, a
\* second entry with a posting without metadata, no shared key, not similar
C13_Witness ==
    /\ pc = "compared"
    /\ Len(CE1.postings) = 2 /\ IdPostingsOf(CE1) = {1, 2}
    /\ DOMAIN cache[CE1] = {<<"Assets:Bank", "X", "USD">>}
    /\ cache[CE1][<<"Assets:Bank", "X", "USD">>] = 0
    /\ Len(CE2.postings) = 1 /\ CE2.postings[1].meta = <<>>
    /\ DOMAIN cache[CE2] = {}
    /\ cmp_result = <<FALSE>>

(***************************************************************************)
(* Claims about the bank path                                              *)
(***************************************************************************)
\* an extraction of the bank path returned its entries
BankReturned == pc \in {"plaid_bank", "plaid", "importer"}

IsTxn(e) == "postings" \in DOMAIN e

\* the transaction entries and the balance assertions of the returned list
TxnEntries == SelectSeq(entries, IsTxn)
BalanceEntries == SelectSeq(entries, LAMBDA e : ~IsTxn(e))

NotPending(t) == ~t.pending
OwnNotPending(t) == ~t.pending /\ t.account_id = account_id

\* the transactions of the file that are not pending, in file order
NonPendingTxns == SelectSeq(json_transactions, NotPending)

\* the amounts of the non-pending transactions
RawAmounts == {NonPendingTxns[i].amount : i \in 1..Len(NonPendingTxns)}

\* C14: every non-pending bank transaction of the imported account yields
\* one entry and no pending transaction yields one; every entry has exactly
\* two postings, the first on the owning account with the raw amount (in
\* either sign convention), the second on another account with the opposite
\* amount.
C14_TwoPostingsPerTransaction ==
    BankReturned =>
        /\ Len(TxnEntries) >= Len(SelectSeq(json_transactions, OwnNotPending))
        /\ Len(TxnEntries) <= Len(NonPendingTxns)
        /\ \A i \in 1..Len(TxnEntries) :
            LET ps == TxnEntries[i].postings IN
            /\ Len(ps) = 2
            /\ ps[1].account = account_name
            /\ Abs(ps[1].number) \in {Abs(a) : a \in RawAmounts}
            /\ ps[2].number = -ps[1].number

\* the balance the institution reports for the account
ReportedBalance ==
    IF json_accounts[1].current # <<>> THEN json_accounts[1].current
    ELSE json_accounts[1].available

\* C15: after the batch there is exactly one balance assertion if at least
\* one transaction entry was produced and none otherwise; it is dated one day
\* after last_successful_update, carries the reported balance, negated
\* exactly when the account type is credit or loan.
C15_BalanceAfterLastUpdate ==
    BankReturned =>
        /\ Len(BalanceEntries) = (IF Len(TxnEntries) > 0 THEN 1 ELSE 0)
        /\ \A i \in 1..Len(BalanceEntries) :
            /\ BalanceEntries[i].date = json_accounts[1].last_successful_update + 1
            /\ BalanceEntries[i].account = account_name
            /\ ReportedBalance # <<>>
            /\ BalanceEntries[i].number =
                  (IF json_accounts[1].type \in {"credit", "loan"}
                   THEN -ReportedBalance[1] ELSE ReportedBalance[1])

\* the account path the claim and the code give for a category
ExpensesFoodHyphenRestaurants ==
    <<"E", "x", "p", "e", "n", "s", "e", "s", ":", "F", "o", "o", "d", "-",
      "R", "e", "s", "t", "a", "u", "r", "a", "n", "t", "s">>
ExpensesFoodRestaurants ==
    <<"E", "x", "p", "e", "n", "s", "e", "s", ":", "F", "o", "o", "d", ":",
      "R", "e", "s", "t", "a", "u", "r", "a", "n", "t", "s">>
ExpensesFoodAndDrinkRestaurants ==
    <<"E", "x", "p", "e", "n", "s", "e", "s", ":", "F", "o", "o", "d", "-",
      "a", "n", "d", "-", "D", "r", "i", "n", "k", ":", "R", "e", "s", "t",
      "a", "u", "r", "a", "n", "t", "s">>
ExpensesKidsToys ==
    <<"E", "x", "p", "e", "n", "s", "e", "s", ":", "K", "i", "d", "s", "-",
      "T", "o", "y", "s">>

\* the second posting of the entry of every non-pending transaction of
\* category c, in the list src/plaid_bank.py returned, is on account path
CategoryBookedOn(c, path) ==
    pc = "plaid_bank" =>
        \A i \in 1..Len(NonPendingTxns) :
            NonPendingTxns[i].category = c => TxnEntries[i].postings[2].account = path

\* C16 as claimed: the expense account is "Expenses:" and the category
\* components joined with hyphens; category ["Food", "Restaurants"] is
\* booked on Expenses:Food-Restaurants.
C16_HyphenJoinedCategory ==
    CategoryBookedOn(<<Food, Restaurants>>, ExpensesFoodHyphenRestaurants)

\* C16 amended: the components are joined with colons, after which
\* apostrophes and commas are removed and every space becomes a hyphen:
\* ["Food", "Restaurants"] is booked on Expenses:Food:Restaurants,
\* ["Food and Drink", "Restaurants"] on Expenses:Food-and-Drink:Restaurants,
\* ["Kid's, Toys"] on Expenses:Kids-Toys.
C16_ColonJoinedCategory ==
    /\ CategoryBookedOn(<<Food, Restaurants>>, ExpensesFoodRestaurants)
    /\ CategoryBookedOn(<<FoodAndDrink, Restaurants>>, ExpensesFoodAndDrinkRestaurants)
    /\ CategoryBookedOn(<<KidsToys>>, ExpensesKidsToys)

\* C16 witness: src/plaid_bank.py booked a transaction of category
\* ["Food and Drink", "Restaurants"] on Expenses:Food-and-Drink:Restaurants
C16_Witness ==
    /\ pc = "plaid_bank"
    /\ Len(NonPendingTxns) >= 1
    /\ NonPendingTxns[1].category = <<FoodAndDrink, Restaurants>>
    /\ TxnEntries[1].postings[2].account = ExpensesFoodAndDrinkRestaurants

(***************************************************************************)
(* Claims about the prices and balances of the holdings                    *)
(***************************************************************************)
\* the holding at position index (counted from 0) of the file and its security
HoldingAt(index) == json_holdings[index + 1]
SecurityOf(h) == securities[h.security_id]

OwnHoldingIndexes ==
    {i \in 0..(Len(json_holdings) - 1) : HoldingAt(i).account_id = account_id}

\* the entries made for the holding at position index
EntriesFor(index) == {k \in 1..Len(entries) : entries[k].lineno = index}

\* the close timestamp of the security is there and strictly later than the
\* institution timestamp of the holding (a missing one is never later)
CloseIsLater(h) ==
    /\ SecurityOf(h).close_price_as_of # <<>>
    /\ \/ h.institution_price_as_of = <<>>
       \/ SecurityOf(h).close_price_as_of[1] > h.institution_price_as_of[1]

\* price, as-of date (<<>> when never observed) and currency of the source
\* chosen for holding h
ChosenPrice(h) ==
    IF CloseIsLater(h) THEN SecurityOf(h).close_price ELSE h.institution_price
ChosenDate(h) ==
    IF CloseIsLater(h) THEN SecurityOf(h).close_price_as_of ELSE h.institution_price_as_of
ChosenCurrency(h) ==
    IF CloseIsLater(h) THEN SecurityOf(h).iso_currency_code ELSE h.iso_currency_code

\* C17: every price observation made for a holding has the close price,
\* close date and currency of the security exactly when the close timestamp
\* is strictly later than the institution timestamp of the holding, and
\* otherwise (equal timestamps, no close timestamp) the institution price,
\* institution date and currency of the holding: all three from one source.
C17_PriceFromLatestSource ==
    pc = "prices" =>
        \A k \in 1..Len(entries) :
            LET h == HoldingAt(entries[k].lineno) IN
            /\ ChosenDate(h) # <<>>
            /\ entries[k].price = ChosenPrice(h)
            /\ entries[k].date = ChosenDate(h)[1]
            /\ entries[k].price_currency = ChosenCurrency(h)
            /\ entries[k].currency = SecurityOf(h).ticker_symbol

\* C17 witness: the close of day 368 in EUR is taken for a holding priced on
\* day 367 in CAD, and for a holding priced on day 368 itself the institution
\* price in CAD is taken
C17_Witness ==
    /\ pc = "prices" /\ Len(entries) = 2 /\ Len(json_holdings) = 2
    /\ securities["S1"].close_price_as_of = <<368>>
    /\ securities["S1"].close_price = 7 /\ securities["S1"].iso_currency_code = "EUR"
    /\ HoldingAt(0).institution_price_as_of = <<367>> /\ HoldingAt(0).iso_currency_code = "CAD"
    /\ HoldingAt(1).institution_price_as_of = <<368>> /\ HoldingAt(1).iso_currency_code = "CAD"
    /\ entries[1].price = 7 /\ entries[1].date = 368 /\ entries[1].price_currency = "EUR"
    /\ entries[2].price = 9 /\ entries[2].date = 368 /\ entries[2].price_currency = "CAD"

\* the holdings of the account have one price observation each, except those
\* whose chosen price is 1 or whose chosen date is not after day cutoff (or
\* was never observed), which have none; other holdings have none
PricesExceptUpTo(cutoff) ==
    pc = "prices" =>
        /\ \A k \in 1..Len(entries) : entries[k].lineno \in OwnHoldingIndexes
        /\ \A i \in OwnHoldingIndexes :
            LET h == HoldingAt(i)
                skipped == \/ ChosenPrice(h) = 1
                           \/ ChosenDate(h) = <<>>
                           \/ ChosenDate(h)[1] <= cutoff
            IN Cardinality(EntriesFor(i)) = (IF skipped THEN 0 ELSE 1)

\* C18 as claimed: no price observation has the price 1 or a chosen date at
\* or before the epoch that stands for "never observed"; every other holding
\* of the account has exactly one.
C18_SkipsUnitPriceAndEpoch == PricesExceptUpTo(epoch_date)

\* C18 amended: no price observation has the price 1 or a chosen date at or
\* before 1971-01-02 (a year and a day after the epoch that stands for
\* "never observed"); every other holding of the account has exactly one.
C18_SkipsUnitPriceAndFirstYear == PricesExceptUpTo(price_cutoff_date)

\* C18 witness: no close timestamp; a holding priced 9 on 1971-01-02 has no
\* price observation, a holding priced 9 the day after has one, a holding
\* never observed has none
C18_Witness ==
    /\ pc = "prices" /\ Len(json_holdings) = 2
    /\ securities["S1"].close_price_as_of = <<>>
    /\ HoldingAt(0).account_id = account_id /\ HoldingAt(1).account_id = account_id
    /\ HoldingAt(0).institution_price = 9
    /\ HoldingAt(0).institution_price_as_of \in {<<>>, <<price_cutoff_date>>}
    /\ HoldingAt(1).institution_price = 9
    /\ HoldingAt(1).institution_price_as_of = <<price_cutoff_date + 1>>
    /\ Len(entries) = 1 /\ entries[1].lineno = 1

\* C19: for every holding of the imported account there is exactly one
\* balance assertion, for the quantity of the holding in its security on the
\* sub-account of the security, dated balance_timedelta after the as-of date
\* of the price chosen for the holding; other holdings have none.
C19_BalancePerHolding ==
    pc \in {"bals", "bals_raised"} =>
        /\ pc = "bals"
        /\ \A k \in 1..Len(entries) : entries[k].lineno \in OwnHoldingIndexes
        /\ \A i \in OwnHoldingIndexes :
            LET h == HoldingAt(i) IN
            /\ Cardinality(EntriesFor(i)) = 1
            /\ \A k \in EntriesFor(i) :
                /\ entries[k].number = h.quantity
                /\ entries[k].currency = SecurityOf(h).ticker_symbol
                /\ entries[k].account = account_name \o ":" \o SecurityOf(h).ticker_symbol
                /\ ChosenDate(h) # <<>>
                /\ entries[k].date = ChosenDate(h)[1] + balance_timedelta

(***************************************************************************)
(* Claims about cash deposits and withdrawals                              *)
(***************************************************************************)
\* a cash deposit or withdrawal without quantity went through its handler
CashMoveHandled ==
    /\ pc = "handled"
    /\ CbOf(T) \in {"invs_cash_deposit", "invs_cash_withdrawal"}
    /\ T.quantity = <<>>

\* the entry has one posting and it is on the cash sub-account
OneCashPosting ==
    /\ R.entry # <<>>
    /\ Len(Entry.postings) = 1
    /\ Entry.postings[1].account = cash_account
    /\ Entry.postings[1].currency = T.iso_currency_code

\* C20 as claimed: a cash deposit or withdrawal that carries no quantity
\* yields an entry with one posting, on the cash sub-account, whose amount
\* has the sign of the raw amount.
C20_CashPostingSameSign ==
    CashMoveHandled =>
        /\ OneCashPosting
        /\ (Entry.postings[1].number > 0) = (T.amount > 0)
        /\ (Entry.postings[1].number < 0) = (T.amount < 0)

\* C20 amended: the amount of that posting is the negation of the raw
\* amount: an inflow, which the institution reports as a negative amount, is
\* a positive posting on the cash sub-account.
C20_CashPostingNegatesAmount ==
    CashMoveHandled =>
        /\ OneCashPosting
        /\ Entry.postings[1].number = -T.amount

\* C20 witness: a deposit reported as -2 posted as +2 on the cash sub-account
C20_Witness ==
    /\ CashMoveHandled /\ OneCashPosting
    /\ T.type = "cash" /\ T.subtype = "deposit"
    /\ T.amount = -2 /\ Entry.postings[1].number = 2

(***************************************************************************)
(* Claims about the postings of the compound handler                       *)
(***************************************************************************)
\* the account the compound handler moves the cash from
SourceAccount ==
    CASE CbOf(T) = "invs_buy_sell" -> cash_account
      [] CbOf(T) = "invs_buy_reinvestment" -> dividend_income_account
      [] OTHER -> fees_account

\* C21: in every entry of the compound handler the first posting is on the
\* source account with -(amount + fee), and the second posting is the fee on
\* the fees account if and only if the fee is not zero; no later posting is
\* on the fees account.
C21_CashDebitAndSeparateFee ==
    BuyPathEntry =>
        /\ Entry.postings[1].account = SourceAccount
        /\ Entry.postings[1].number = -(T.amount + T.fees)
        /\ Entry.postings[1].currency = T.iso_currency_code
        /\ (T.fees # 0) =
              (/\ Entry.postings[2].account = fees_account
               /\ Entry.postings[2].number = T.fees
               /\ Entry.postings[2].cost = <<>>)
        /\ PostingsOn(Entry, fees_account) \subseteq {1, 2}

\* C21 witness: a buy of 1010 with fee 10 debits the cash account by 1020
\* and posts the fee of 10 second
C21_Witness ==
    /\ BuyPathEntry /\ CbOf(T) = "invs_buy_sell"
    /\ T.amount = 1010 /\ T.fees = 10
    /\ Entry.postings[1].account = cash_account /\ Entry.postings[1].number = -1020
    /\ Entry.postings[2].account = fees_account /\ Entry.postings[2].number = 10

RECURSIVE WeightSum(_, _)
\* the sum of the weights of the postings in currency cur: a posting held at
\* cost weighs number * unit cost in the cost currency, a posting with a
\* price annotation and no cost weighs number * price in the price currency,
\* any other posting weighs its amount
WeightSum(ps, cur) ==
    IF ps = <<>> THEN 0
    ELSE LET p == Head(ps)
             w == IF p.cost # <<>>
                  THEN (IF p.cost[1].currency = cur THEN p.number * p.cost[1].number ELSE 0)
                  ELSE IF p.price # <<>>
                  THEN (IF p.price[1].currency = cur THEN p.number * p.price[1].number ELSE 0)
                  ELSE (IF p.currency = cur THEN p.number ELSE 0)
         IN w + WeightSum(Tail(ps), cur)

\* the postings of entry e held at cost
LotPostings(e) == {i \in 1..Len(e.postings) : e.postings[i].cost # <<>>}

\* C25: in every entry of the compound handler for a security that is not in
\* the money-market set there is one lot posting, of the quantity at the
\* unit price as cost, and the cash posting, the fee posting, the lot at
\* quantity * unit cost and the discrepancy posting sum to zero in the
\* currency of the transaction.
C25_LotBalancesByWeight ==
    (BuyPathEntry /\ ~TracksCash) =>
        /\ Cardinality(LotPostings(Entry)) = 1
        /\ \A i \in LotPostings(Entry) :
              /\ Entry.postings[i].number = T.quantity[1]
              /\ Entry.postings[i].cost[1].number = T.price
              /\ Entry.postings[i].cost[1].currency = T.iso_currency_code
        /\ WeightSum(Entry.postings, T.iso_currency_code) = 0

\* C25 witness: a sell of -1 at price 2 for the amount 1 with a fee of 10:
\* cash -11, fee 10, lot -1 at cost 2, gain 3
C25_Witness ==
    /\ BuyPathEntry /\ ~TracksCash
    /\ T.type = "sell" /\ T.amount = 1 /\ T.fees = 10
    /\ T.quantity = <<-1>> /\ T.price = 2
    /\ Len(Entry.postings) = 4
    /\ Entry.postings[4].number = 3
    /\ WeightSum(Entry.postings, "USD") = 0

\* C26: in every entry of the compound handler for a security whose symbol
\* is in the money-market set no posting is held at cost, and the cash
\* posting, the fee posting and the position posting valued 1:1 sum to zero
\* in the currency of the transaction.
C26_TracksCashBalances ==
    (BuyPathEntry /\ TracksCash) =>
        /\ LotPostings(Entry) = {}
        /\ WeightSum(Entry.postings, T.iso_currency_code) = 0

(***************************************************************************)
(* Claims about the external identifier                                    *)
(***************************************************************************)
\* the identifier of the raw record, of a bank or an investment transaction
RawId ==
    IF "investment_transaction_id" \in DOMAIN T
    THEN T.investment_transaction_id ELSE T.transaction_id

\* the postings of entry e whose metadata carries an external identifier
PostingsWithId(e) == {i \in 1..Len(e.postings) : CarriesId(e.postings[i])}

\* C27: every transaction entry made from a raw record, by any handler of
\* the investment table or by the bank path, has exactly one posting whose
\* metadata carries the external identifier, which is the identifier of the
\* raw record; the other postings have no metadata.
C27_OnePostingCarriesId ==
    AnyEntry =>
        /\ Cardinality(PostingsWithId(Entry)) = 1
        /\ \A i \in 1..Len(Entry.postings) :
              IF i \in PostingsWithId(Entry)
              THEN Entry.postings[i].meta[1].plaid_id = RawId
              ELSE Entry.postings[i].meta = <<>>

\* C27 witness: a buy with fee and rounding posting: of its four postings
\* only the lot carries the identifier T1
C27_Witness ==
    /\ BuyPathEntry /\ Len(Entry.postings) = 4
    /\ PostingsWithId(Entry) = {3}
    /\ Entry.postings[3].meta[1].plaid_id = "T1"
    /\ T.investment_transaction_id = "T1"

(***************************************************************************)
(* Claims about the downloader                                             *)
(***************************************************************************)
\* the item lookup or a fetch of a product of the item failed
DownloadFailed ==
    LET client == plaid_client[1] IN
    \/ ~client.item_ok
    \/ "transactions" \in client.products /\ ~client.transactions_ok
    \/ "investments" \in client.products /\ ~client.investment_transactions_ok
    \/ "investments" \in client.products /\ ~client.holdings_ok

\* C22: download returns False whenever the item lookup fails or a
\* transactions or holdings fetch fails, and whenever it returns True the
\* output file has been written.
C22_ReturnTellsSuccess ==
    pc = "downloaded" =>
        /\ DownloadFailed => returned = <<FALSE>>
        /\ returned = <<TRUE>> => output_file # <<>>

(***************************************************************************)
(* Claims about the paginated downloads                                    *)
(***************************************************************************)
\* the page of a response of either download
PageIn(r) ==
    IF "transactions" \in DOMAIN r THEN r.transactions ELSE r.investment_transactions

\* the total a response reports
TotalIn(r) ==
    IF "total_transactions" \in DOMAIN r THEN r.total_transactions
    ELSE r.total_investment_transactions

RECURSIVE Received(_)
\* the number of transactions in the first n pages received
Received(n) == IF n = 0 THEN 0 ELSE Received(n - 1) + Len(PageIn(responses[n]))

RECURSIVE PagesJoined(_)
\* the first n pages received, one after the other
PagesJoined(n) == IF n = 0 THEN <<>> ELSE PagesJoined(n - 1) \o PageIn(responses[n])

C30_Offsets ==
    /\ Len(requests) = Len(responses)
    /\ \A i \in 1..Len(requests) : requests[i] = Received(i - 1)
    /\ offset = Received(Len(responses))

C30_StopsExactly ==
    /\ (pc = "returned_responses") <=>
           (responses # <<>> /\ Received(Len(responses)) >= TotalIn(responses[1]))
    /\ \A i \in 1..(Len(responses) - 1) : Received(i) < TotalIn(responses[1])

C30_PagesInOrder ==
    /\ PagesJoined(Len(responses)) = PageOf(0, offset)
    /\ pc = "returned_responses" => returned = <<responses>>

\* C30: the first request has offset 0 and each later one the number of
\* transactions received so far; the loop stops exactly when that number
\* reaches the total of the first response; the list returned holds every
\* page in request order and pages are only ever appended; and when the
\* service keeps returning the remaining transactions the loop terminates.
C30_PaginationTerminates ==
    /\ [](C30_Offsets /\ C30_StopsExactly /\ C30_PagesInOrder)
    /\ [][\/ responses' = responses
          \/ /\ Len(responses') = Len(responses) + 1
             /\ SubSeq(responses', 1, Len(responses)) = responses]_vars
    /\ <>(pc = "returned_responses")

\* C30 witness: a download that needed three requests, one of them answered
\* with an empty page and one with a total other than the first, returned.
C30_Witness ==
    /\ pc = "returned_responses"
    /\ Len(responses) = 3
    /\ \E i \in 1..3 : PageIn(responses[i]) = <<>>
    /\ \E i \in 2..3 : TotalIn(responses[i]) # TotalIn(responses[1])
    /\ Received(3) = 3

(***************************************************************************)
(* Claims about the comparator's cache and symmetry                        *)
(***************************************************************************)
\* C23: over any sequence of calls of one comparator, the map cached for an
\* entry is amounts_map of that entry, each call returns what a comparator
\* with an empty cache returns, and the cache only gains keys.
C23_CacheTransparent ==
    /\ [](\A e \in DOMAIN cache : cache[e] = amounts_map(e))
    /\ [](cmp_result # <<>> =>
            cmp_result[1] = Compare(cmp_max_date_delta, EmptyDict, CE1, CE2))
    /\ [][DOMAIN cache \subseteq DOMAIN cache']_vars

\* C23 witness: after several calls three entries are cached, and a call on
\* two distinct entries under a date tolerance found them similar.
C23_Witness ==
    /\ pc = "compare_again"
    /\ Cardinality(DOMAIN cache) >= 3
    /\ cmp_max_date_delta # <<>>
    /\ cmp_result = <<TRUE>>
    /\ CE1 # CE2

\* C24: compare(A, B) equals compare(B, A) for every pair of entries and
\* every date tolerance, zero amounts and opposite signs included.
C24_Symmetric ==
    pc = "compared" =>
        cmp_result[1] = Compare(cmp_max_date_delta, EmptyDict, CE2, CE1)

\* C24 witness: two entries a day apart, within the tolerance, share a key
\* whose amounts have opposite signs and another whose amount is zero on one
\* side only; the call was made.
C24_Witness ==
    /\ pc = "compared"
    /\ cmp_max_date_delta = <<1>>
    /\ CE1.date # CE2.date
    /\ LET a1 == amounts_map(CE1)
           a2 == amounts_map(CE2)
       IN /\ \E k \in DOMAIN a1 \cap DOMAIN a2 : a1[k] * a2[k] < 0
          /\ \E k \in DOMAIN a1 \cap DOMAIN a2 : a1[k] = 0 /\ a2[k] # 0

(***************************************************************************)
(* Claims about the description filter (SpecInvest)                        *)
(***************************************************************************)
\* the transactions of the file that are enumerated: of the imported account
\* and not pending
OwnTxns == SelectSeq(json_transactions, LAMBDA t : ~EnumerateSkips(t))

\* every enumerated transaction has a supported type and subtype
AllSupported == \A i \in 1..Len(OwnTxns) : ~Unsupported(OwnTxns[i])

\* the enumerated transactions whose description holds none of the strings
KeptTxns(strings) == SelectSeq(OwnTxns, LAMBDA t : ~Excluded(t.name, strings))

\* with a filter list, one entry per enumerated transaction whose description
\* holds none of the listed strings, in file order
C28_FilterOmitsListed ==
    (pc # "extract_investments" /\ AllSupported /\ exclude_descriptions # <<>>) =>
        /\ pc = "returned"
        /\ Len(returned[1]) = Len(KeptTxns(exclude_descriptions[1]))
        /\ \A i \in 1..Len(returned[1]) :
               returned[1][i].narration = KeptTxns(exclude_descriptions[1])[i].name

\* C28: with no exclude_descriptions given, extract on a file with at least
\* one enumerated transaction completes without error and emits one entry per
\* such transaction; with a filter list exactly the transactions whose
\* description contains a listed string are omitted.
C28_DefaultConfigCompletes ==
    /\ (pc # "extract_investments" /\ AllSupported /\ exclude_descriptions = <<>>
            /\ OwnTxns # <<>>) =>
           /\ pc = "returned" /\ error = <<>>
           /\ Len(returned[1]) = Len(OwnTxns)
    /\ C28_FilterOmitsListed

(***************************************************************************)
(* Claims about deduplicate (SpecDeduplicate)                              *)
(***************************************************************************)
\* the posting carries transaction id `id` in its metadata
HasTransactionId(posting, id) ==
    /\ posting.meta # <<>>
    /\ "transaction_id" \in DOMAIN posting.meta[1]
    /\ posting.meta[1].transaction_id = id

\* the transaction ids on the postings of the transactions of the existing
\* ledger; a posting without metadata carries none
ExistingIds ==
    {id \in {"X", "Y"} :
        \E i \in 1..Len(existing_entries) :
            /\ IsTransaction(existing_entries[i])
            /\ \E j \in 1..Len(existing_entries[i].postings) :
                   HasTransactionId(existing_entries[i].postings[j], id)}

\* entry e is a transaction with a posting whose transaction id is on a
\* posting of an existing transaction
IsKnown(e) ==
    /\ IsTransaction(e)
    /\ \E j \in 1..Len(e.postings), id \in ExistingIds : HasTransactionId(e.postings[j], id)

\* the entries returned are the entries given, in order, marked exactly when
\* known and otherwise unchanged
MarkedById ==
    /\ Len(returned[1]) = Len(entries)
    /\ \A i \in 1..Len(entries) :
          LET e == entries[i]
              m == returned[1][i]
          IN /\ (DUPLICATE \in DOMAIN m.meta) <=> IsKnown(e)
             /\ \A k \in DOMAIN e.meta : m.meta[k] = e.meta[k]
             /\ m.date = e.date
             /\ IsTransaction(e) => IsTransaction(m) /\ m.postings = e.postings
             /\ ~IsTransaction(e) => m = e

\* when deduplicate returns, it returns the entries marked by identifier
C29_MarksWhenItReturns == pc = "deduplicated" => MarkedById

\* C29: deduplicate returns the new entries in the same order and number,
\* marks exactly the transactions with a posting whose transaction id is on a
\* posting of an existing transaction, leaves dates, postings and entries of
\* other kinds unchanged, and never fails on an existing posting without
\* metadata.
C29_DeduplicateNeverFails ==
    pc # "deduplicate" => (pc = "deduplicated" /\ error = <<>> /\ MarkedById)

====
